---- MODULE Spec2Model ----
(***************************************************************************)
(* hyprbot: the job queue over a Redis stream with one consumer group      *)
(* (internal/queue), the worker's consume loop (internal/worker) and the   *)
(* hourly rate limiter (internal/queue).                                   *)
(*                                                                         *)
(* Redis itself is modelled by the documented behaviour of the commands    *)
(* the code issues: XADD, XGROUP CREATE ... $ MKSTREAM, XREADGROUP ... >,  *)
(* XACK, XDEL, INCR, EXPIRE.                                               *)
(***************************************************************************)
EXTENDS Integers, Sequences, FiniteSets, TLC

(* ------------------------------ bounds -------------------------------- *)

\* A run is either reliable (no failure is injected) with up to MaxJobs jobs, or
\* faulty with up to MaxJobsFaulty jobs and up to MaxFaults injected failures: a
\* worker crash, a Redis command that returns an error, a platform send that fails
MaxJobs == 2
MaxJobsFaulty == 1
MaxFaults == 1

\* the WORKER_MAX_RETRIES and HTTP_MAX_RETRIES values the workers are run with
JobRetryChoices == {0, 1}
ProviderRetryChoices == {1}

\* worker processes (each runs one consumer slot), ingress producers, chats
Workers == {"w1", "w2"}
Producers == {"p1", "p2"}
Chats == {111}

\* the rate limiter's clock: ticks per second, seconds in the (scaled-down) hour,
\* the last tick, and the number of Allow calls in one run
TicksPerSecond == 2
HourSeconds == 2
MaxTicks == 5
MaxCalls == 3

\* ingress: the deliveries of updates in one run, the last tick of such a run,
\* and the dedup TTL in ticks
MaxDeliveries == 3
MaxIngressTicks == 1
DedupTtlTicks == 1

\* the wizard: providers saved in one run; the chats the deep links name, the
\* master key ids, the nonces the RNG may yield
MaxSaves == 1
TargetChats == {222, 333}

\* the wizard session's TTL (WIZARD_TTL, scaled down) and the last tick of a run
\* that follows a session through time
WizardTtlTicks == 2
MaxWizardTicks == 3
KeyIds == {"k1", "k2"}
Nonces == {1}

\* the admin commands: commands started in one run, sequentially and with two
\* handlers at a time; the highest provider id given out
MaxCmds == 2
MaxCmdsConcurrent == 2
MaxProviderId == 2

\* the admin commands: the dispatcher's slots and the idle slot
Slots == {"h1", "h2"}
Idle == [pc |-> "idle"]

Replicas == {"i1", "i2"}
RateChats == {1}
RateUsers == {10, 11}

(* ------------------------- program constants -------------------------- *)

\* WORKER_MAX_RETRIES and HTTP_MAX_RETRIES defaults
DefaultJobRetries == 3
DefaultProviderRetries == 2

\* ADMIN_USER_ID as set for the runs, and a user who is not the admin
AdminUserID == 10
OtherUserID == 11
\* the users that talk to the wizard
WizardUsers == {AdminUserID}

\* the longest provider name
MaxNameLen == 64

\* the limit the rate limiter's test runs with
limit == 2

ErrorText == "LLM provider error. Please try again later."
GuidanceText == "Preset not found. Configure /ai_default or use /ai <preset>."
AnswerText == "answer"

\* what one HTTP call of the adapter may come back with
Statuses == {200, 400, 503}

(* ------------------------------- state -------------------------------- *)

VARIABLES
    maxJobRetries,  \* Worker.maxJobRetries, fixed by worker.New
    providerRetries,\* Worker.providerRetries, the adapter's MaxRetries
    added,          \* every XADD ever made, in id order: added[i] is entry i
    stream,         \* ids of the entries the stream holds now
    groupExists,    \* the consumer group has been created
    lastDelivered,  \* the group's last-delivered-id
    pel,            \* the group's pending entries list
    pc,             \* per worker: "stopped", "read", "process", "exec"
    cur,            \* per worker: id of the message in hand, 0 if none
    todo,           \* per worker: the queue calls still to make for cur
    calls,          \* per worker: HTTP attempts made for cur
    sent,           \* messages posted to the platform by workers
    finished,       \* jobs whose processing chain has ended
    readLog,        \* ids returned by Read, in order
    enqueuedJobs,   \* metrics: queue_enqueued_total
    processedJobs,  \* metrics: queue_processed_total
    failedJobs,     \* metrics: queue_failed_total
    faults,         \* failures injected so far
    jobLimit,       \* environment: jobs ingress enqueues at most in this run
    faultLimit,     \* environment: failures injected at most in this run
    clock,          \* the time, in ticks
    rateKeys,       \* Redis: rate-limit key -> [n, exp], exp the tick it expires at
    inflight,       \* per ingress replica: the Allow call between now and the script
    results,        \* what the Allow calls returned, in the order the scripts ran
    accessMode,     \* BOT_ACCESS_MODE: "public" or "private"
    dedupKeys,      \* Redis: update id -> the tick its dedup key expires at
    deliveries,     \* every delivery of an update to ingress, and what it caused
    pending,        \* per ingress replica: the delivery dispatched to a handler
    chats,          \* the store's chat rows (chat ids)
    payloads,       \* per stream entry of ingress: the job's preset_name and prompt
    sessions,       \* Redis: per user the wizard session, NoSession if there is none
    providers,      \* the store's provider_instances rows
    auditLog,       \* the store's audit_log rows, in order
    admins,         \* the platform: the <<chat, user>> pairs with admin rights
    adminCache,     \* Redis: <<chat, user>> -> the cached answer of the admin check
    currentKeyID,   \* the crypto manager's current key id
    checked,        \* the <<chat, user>> pairs a wizard's admin check answered yes for
    lastMsg,        \* the message handled by the last step: its kind, sender, text, reply
    saves,          \* providers saved through the wizard so far
    lastId,         \* the store: the last id the provider_instances sequence gave out
    presets,        \* the store's presets rows
    defaults,       \* the store: per chat row its default_preset_name, "" if NULL
    handlers,       \* per dispatcher slot: the admin command it is running
    cmds,           \* admin commands started so far
    cmdLimit,       \* environment: admin commands started at most in this run
    handlerLimit,   \* environment: admin commands that may run at the same time
    calc,           \* the last call of a crypto or store function: inputs and result
    call,           \* the adapter's Chat call: its loop, context and result
    ctxDone,        \* the root context of the process is cancelled
    outcome         \* per processed entry: why processJob failed, "" if it did not

queueVars == <<added, stream, groupExists, lastDelivered, pel>>
workerVars == <<pc, cur, todo, calls, sent, finished, readLog>>
metricVars == <<enqueuedJobs, processedJobs, failedJobs>>
cfgVars == <<maxJobRetries, providerRetries, jobLimit, faultLimit>>
rateVars == <<clock, rateKeys, inflight, results>>
ingressVars == <<accessMode, dedupKeys, deliveries, pending, chats, payloads>>
wizardVars == <<sessions, providers, auditLog, admins, adminCache, currentKeyID,
                checked, lastMsg, saves>>
frontVars == <<ingressVars, wizardVars>>
adminVars == <<lastId, presets, defaults, handlers, handlerLimit, cmds, cmdLimit>>
runVars == <<ctxDone, outcome>>
backVars == <<adminVars, calc, call, runVars>>
vars == <<cfgVars, queueVars, workerVars, metricVars, faults, rateVars, frontVars,
          backVars>>

Ids == DOMAIN added
Range(s) == {s[k] : k \in DOMAIN s}
SetMin(S) == CHOOSE x \in S : \A y \in S : x <= y

\* jobs ingress has enqueued so far are 1 .. nextJob-1
nextJob == Cardinality({i \in Ids : added[i].parent = 0}) + 1

\* everything but the worker's configuration
InitState ==
    /\ added = <<>>
    /\ stream = {}
    /\ groupExists = FALSE
    /\ lastDelivered = 0
    /\ pel = {}
    /\ pc = [w \in Workers |-> "stopped"]
    /\ cur = [w \in Workers |-> 0]
    /\ todo = [w \in Workers |-> <<>>]
    /\ calls = [w \in Workers |-> 0]
    /\ sent = {}
    /\ finished = {}
    /\ readLog = <<>>
    /\ enqueuedJobs = 0
    /\ processedJobs = 0
    /\ failedJobs = 0
    /\ faults = 0
    /\ clock = 0
    /\ rateKeys = <<>>
    /\ inflight = [r \in Replicas |-> <<>>]
    /\ results = <<>>
    /\ dedupKeys = <<>>
    /\ deliveries = <<>>
    /\ pending = [r \in Replicas |-> <<>>]
    /\ payloads = <<>>
    /\ sessions = [u \in WizardUsers |-> [step |-> "none"]]
    /\ auditLog = <<>>
    /\ adminCache = <<>>
    /\ checked = {}
    /\ lastMsg = [op |-> "none"]
    /\ saves = 0
    /\ cmds = 0
    /\ handlers = [h \in Slots |-> Idle]
    /\ calc = [op |-> "none"]
    /\ call = [pc |-> "idle"]
    /\ ctxDone = FALSE
    /\ outcome = <<>>

\* a run without platform updates
\* the store before any chat was seen
EmptyStore ==
    /\ chats = {} /\ presets = {} /\ defaults = [c \in TargetChats |-> ""]

NoUpdates ==
    /\ accessMode = "public" /\ admins = {} /\ currentKeyID = "k1" /\ providers = {}
    /\ lastId = 0 /\ handlerLimit = 0 /\ cmdLimit = 0

\* worker.New: a negative MaxJobRetries becomes 0; openai_compat.New does the same
\* to MaxRetries
Init ==
    /\ maxJobRetries \in JobRetryChoices
    /\ providerRetries \in ProviderRetryChoices
    /\ \/ jobLimit = MaxJobs /\ faultLimit = 0
       \/ jobLimit = MaxJobsFaulty /\ faultLimit = MaxFaults
    /\ InitState
    /\ EmptyStore
    /\ NoUpdates

\* an operation that succeeds, or fails within the failure budget
Outcome(ok) ==
    /\ ok \/ faults < faultLimit
    /\ faults' = IF ok THEN faults ELSE faults + 1

(* ------------------------------ the queue ----------------------------- *)

\* XADD: the engine assigns the next id; the payload is the JSON of the job
XAdd(job, chat, attempts, parent, by) ==
    /\ added' = Append(added, [job |-> job, chat |-> chat, attempts |-> attempts,
                               parent |-> parent, by |-> by])
    /\ stream' = stream \cup {Len(added) + 1}

\* a read that also returns what is pending (XREADGROUP from "0")
NewOrPendingEntries == {i \in stream : i > lastDelivered \/ i \in pel}

\* a read outside a group (XREAD from the start): every entry of the stream
AllEntries == stream

\* XREADGROUP ... ">": the entries never delivered to the group
NewEntries == {i \in stream : i > lastDelivered}

\* Service.ask / Service.ai from the enqueue on: Attempts is left at its zero value
Ask(p, chat, ok) ==
    /\ nextJob <= jobLimit
    /\ Outcome(ok)
    /\ IF ok
         THEN /\ XAdd(nextJob, chat, 0, 0, p)
              /\ enqueuedJobs' = enqueuedJobs + 1
              /\ UNCHANGED <<cfgVars, backVars, rateVars, frontVars, groupExists, lastDelivered, pel, workerVars,
                             processedJobs, failedJobs>>
         ELSE UNCHANGED <<cfgVars, backVars, rateVars, frontVars, queueVars, workerVars, metricVars>>

(* ------------------------------ the worker ---------------------------- *)

\* Worker.Start: EnsureGroup (XGROUP CREATE stream group $ MKSTREAM, BUSYGROUP
\* swallowed), then the consume loop
Start(w, ok) ==
    /\ pc[w] = "stopped"
    /\ Outcome(ok)
    /\ IF ok
         THEN /\ IF groupExists
                   THEN UNCHANGED <<groupExists, lastDelivered>>
                   ELSE /\ groupExists' = TRUE
                        /\ lastDelivered' = Len(added)
              /\ pc' = [pc EXCEPT ![w] = "read"]
              /\ UNCHANGED <<cfgVars, backVars, rateVars, frontVars, added, stream, pel, cur, todo, calls, sent, finished,
                             readLog, metricVars>>
         ELSE UNCHANGED <<cfgVars, backVars, rateVars, frontVars, queueVars, workerVars, metricVars>>

\* StreamQueue.Read with count 1
Read(w) ==
    /\ pc[w] = "read"
    /\ IF NewEntries = {}
         THEN UNCHANGED vars
         ELSE LET id == SetMin(NewEntries) IN
              /\ lastDelivered' = id
              /\ pel' = pel \cup {id}
              /\ readLog' = Append(readLog, id)
              /\ cur' = [cur EXCEPT ![w] = id]
              /\ pc' = [pc EXCEPT ![w] = "process"]
              /\ calls' = [calls EXCEPT ![w] = 0]
              /\ UNCHANGED <<cfgVars, backVars, rateVars, frontVars, added, stream, groupExists, todo, sent, finished,
                             metricVars, faults>>

\* callOnce's verdict on a status: 5xx and 429 ask for another attempt
Retryable(status) == status >= 500 \/ status = 429

\* callOnce: a 2xx whose body parses is the only success
IsSuccess(status) == status >= 200 /\ status <= 299

\* an attempt loop that stops one attempt early
RECURSIVE ChatFromShort(_, _)
ChatFromShort(statuses, attempt) ==
    LET status == statuses[attempt + 1] IN
    IF IsSuccess(status)
      THEN [ok |-> TRUE, calls |-> attempt + 1]
      ELSE IF ~Retryable(status) \/ attempt + 1 >= providerRetries
             THEN [ok |-> FALSE, calls |-> attempt + 1]
             ELSE ChatFromShort(statuses, attempt + 1)

\* Client.Chat: the attempt loop, attempt = 0 .. MaxRetries; statuses[k] is what
\* the k-th HTTP call comes back with. Yields the outcome and the calls made.
RECURSIVE ChatFrom(_, _)
ChatFrom(statuses, attempt) ==
    LET status == statuses[attempt + 1] IN
    IF IsSuccess(status)
      THEN [ok |-> TRUE, calls |-> attempt + 1]
      ELSE IF ~Retryable(status) \/ attempt = providerRetries
             THEN [ok |-> FALSE, calls |-> attempt + 1]
             ELSE ChatFrom(statuses, attempt + 1)

\* Worker.processJob: resolve the preset, call the provider, post the reply.
\* err is the returned error; reply is the text that reached the chat ("" if none)
ProcessResult(resolve, statuses, sendOk) ==
    IF resolve = "notfound"
      THEN [err |-> FALSE, calls |-> 0,
            reply |-> IF sendOk THEN GuidanceText ELSE ""]
    ELSE IF resolve = "error"
      THEN [err |-> TRUE, calls |-> 0, reply |-> ""]
    ELSE LET c == ChatFrom(statuses, 0) IN
         IF ~c.ok THEN [err |-> TRUE, calls |-> c.calls, reply |-> ""]
         ELSE IF sendOk THEN [err |-> FALSE, calls |-> c.calls, reply |-> AnswerText]
         ELSE [err |-> TRUE, calls |-> c.calls, reply |-> ""]

\* a retry test that is off by one
ShouldRetryInclusive(attempts) == attempts <= maxJobRetries

\* consumeLoop: a failed job is retried while its attempts are below the maximum
ShouldRetry(attempts) == attempts < maxJobRetries

\* a re-enqueue that forgets the increment
SameAttempts(attempts) == attempts

\* consumeLoop: msg.Job.Attempts++ before the re-enqueue
NextAttempts(attempts) == attempts + 1

\* consumeLoop: the queue calls that follow processJob, in program order.
\* Ack is XACK then XDEL.
SuccessPlan == <<"xack", "xdel">>
\* a retry that acks before it enqueues
RetryPlanAckFirst == <<"xack", "xdel", "enqueue">>
RetryPlan == <<"enqueue", "xack", "xdel">>
TerminalPlan == <<"senderror", "xack", "xdel">>

\* a terminal path that gives up when the reply cannot be sent
AfterSendErrorChecked(ok, rest) == IF ok THEN rest ELSE <<>>

\* consumeLoop: the result of sendError is discarded
AfterSendError(ok, rest) == rest

\* a retry path that acks the old entry whatever the re-enqueue returned
AfterEnqueueIgnored(ok, rest) == rest

\* consumeLoop: a failed re-enqueue goes on to the next message
AfterEnqueue(ok, rest) == IF ok THEN rest ELSE <<>>

\* an Ack that deletes the entry whatever XACK returned
AfterXAckIgnored(ok, rest) == rest

\* StreamQueue.Ack: a failed XACK returns before the XDEL
AfterXAck(ok, rest) ==
    IF ok THEN rest
    ELSE IF rest # <<>> /\ Head(rest) = "xdel" THEN Tail(rest) ELSE rest

\* the worker moves on: to the next queue call, or back to Read
Advance(w, rest) ==
    /\ todo' = [todo EXCEPT ![w] = rest]
    /\ pc' = [pc EXCEPT ![w] = IF rest = <<>> THEN "read" ELSE "exec"]
    /\ cur' = [cur EXCEPT ![w] = IF rest = <<>> THEN 0 ELSE cur[w]]
    /\ calls' = [calls EXCEPT ![w] = IF rest = <<>> THEN 0 ELSE calls[w]]

StatusSeqs == [1 .. providerRetries + 1 -> Statuses]

\* a worker that does not count its failed jobs
FailedUncounted(err) == failedJobs

\* consumeLoop: ProcessedJobs.Inc after a processJob without an error,
\* FailedJobs.Inc after one with an error
ProcessedAfter(err) == IF err THEN processedJobs ELSE processedJobs + 1
FailedAfter(err) == IF err THEN failedJobs + 1 ELSE failedJobs

\* consumeLoop lines 143-166: what follows processJob's result r: the metric and
\* the choice of the queue calls
Consume(w, r) ==
    /\ pc[w] = "process"
    /\ LET e == added[cur[w]]
           plan == IF ~r.err THEN SuccessPlan
                   ELSE IF ShouldRetry(e.attempts) THEN RetryPlan
                   ELSE TerminalPlan
       IN /\ calls' = [calls EXCEPT ![w] = r.calls]
          /\ sent' = IF r.reply = "" THEN sent
                     ELSE sent \cup {[job |-> e.job, chat |-> e.chat,
                                      text |-> r.reply, entry |-> cur[w]]}
          /\ processedJobs' = ProcessedAfter(r.err)
          /\ failedJobs' = FailedAfter(r.err)
          /\ finished' = IF r.err /\ ShouldRetry(e.attempts) THEN finished
                         ELSE finished \cup {e.job}
          /\ todo' = [todo EXCEPT ![w] = plan]
          /\ pc' = [pc EXCEPT ![w] = "exec"]
    /\ UNCHANGED <<cfgVars, adminVars, calc, call, ctxDone, rateVars, frontVars, queueVars,
                   cur, readLog, enqueuedJobs>>

\* consumeLoop lines 142-166: processJob, the metric, and the choice of what follows
ProcessJob(w, resolve, statuses, sendOk) ==
    /\ Outcome(resolve # "error" /\ sendOk)
    /\ Consume(w, ProcessResult(resolve, statuses, sendOk))
    /\ UNCHANGED outcome

\* consumeLoop lines 155-159: Attempts++ and Enqueue
Reenqueue(w, ok) ==
    /\ pc[w] = "exec" /\ Head(todo[w]) = "enqueue"
    /\ Outcome(ok)
    /\ LET e == added[cur[w]] IN
       IF ok THEN XAdd(e.job, e.chat, NextAttempts(e.attempts), cur[w], "worker")
             ELSE UNCHANGED <<added, stream>>
    /\ Advance(w, AfterEnqueue(ok, Tail(todo[w])))
    /\ UNCHANGED <<cfgVars, backVars, rateVars, frontVars, groupExists, lastDelivered, pel, sent, finished, readLog,
                   metricVars>>

\* consumeLoop line 166: the terminal error reply
SendError(w, ok) ==
    /\ pc[w] = "exec" /\ Head(todo[w]) = "senderror"
    /\ Outcome(ok)
    /\ LET e == added[cur[w]] IN
       sent' = IF ok THEN sent \cup {[job |-> e.job, chat |-> e.chat,
                                      text |-> ErrorText, entry |-> cur[w]]}
               ELSE sent
    /\ Advance(w, AfterSendError(ok, Tail(todo[w])))
    /\ UNCHANGED <<cfgVars, backVars, rateVars, frontVars, queueVars, finished, readLog, metricVars>>

\* StreamQueue.Ack, first half: XACK
XAck(w, ok) ==
    /\ pc[w] = "exec" /\ Head(todo[w]) = "xack"
    /\ Outcome(ok)
    /\ pel' = IF ok THEN pel \ {cur[w]} ELSE pel
    /\ Advance(w, AfterXAck(ok, Tail(todo[w])))
    /\ UNCHANGED <<cfgVars, backVars, rateVars, frontVars, added, stream, groupExists, lastDelivered, sent, finished,
                   readLog, metricVars>>

\* StreamQueue.Ack, second half: XDEL
XDel(w, ok) ==
    /\ pc[w] = "exec" /\ Head(todo[w]) = "xdel"
    /\ Outcome(ok)
    /\ stream' = IF ok THEN stream \ {cur[w]} ELSE stream
    /\ Advance(w, Tail(todo[w]))
    /\ UNCHANGED <<cfgVars, backVars, rateVars, frontVars, added, groupExists, lastDelivered, pel, sent, finished,
                   readLog, metricVars>>

\* the worker process dies; what it held in memory is gone, what it left in the
\* stream and in the pending list stays
Crash(w) ==
    /\ pc[w] # "stopped"
    /\ Outcome(FALSE)
    /\ pc' = [pc EXCEPT ![w] = "stopped"]
    /\ cur' = [cur EXCEPT ![w] = 0]
    /\ todo' = [todo EXCEPT ![w] = <<>>]
    /\ calls' = [calls EXCEPT ![w] = 0]
    /\ UNCHANGED <<cfgVars, backVars, rateVars, frontVars, queueVars, sent, finished, readLog, metricVars>>

Next ==
    \/ \E p \in Producers, chat \in Chats, ok \in BOOLEAN : Ask(p, chat, ok)
    \/ \E w \in Workers, ok \in BOOLEAN : Start(w, ok)
    \/ \E w \in Workers : Read(w)
    \/ \E w \in Workers, resolve \in {"found", "notfound", "error"},
          statuses \in StatusSeqs, sendOk \in BOOLEAN :
            ProcessJob(w, resolve, statuses, sendOk)
    \/ \E w \in Workers, ok \in BOOLEAN : Reenqueue(w, ok)
    \/ \E w \in Workers, ok \in BOOLEAN : SendError(w, ok)
    \/ \E w \in Workers, ok \in BOOLEAN : XAck(w, ok)
    \/ \E w \in Workers, ok \in BOOLEAN : XDel(w, ok)
    \/ \E w \in Workers : Crash(w)

Spec == Init /\ [][Next]_vars

\* the runs of Spec in which calls fail and worker processes die
InitFaulty == Init /\ faultLimit = MaxFaults

SpecFaulty == InitFaulty /\ [][Next]_vars

\* runs in which calls fail and no worker process dies
InitSteady ==
    /\ maxJobRetries \in JobRetryChoices
    /\ providerRetries \in ProviderRetryChoices
    /\ jobLimit = MaxJobs /\ faultLimit = MaxFaults
    /\ InitState
    /\ EmptyStore
    /\ NoUpdates

NextSteady ==
    \/ \E p \in Producers, chat \in Chats, ok \in BOOLEAN : Ask(p, chat, ok)
    \/ \E w \in Workers, ok \in BOOLEAN : Start(w, ok)
    \/ \E w \in Workers : Read(w)
    \/ \E w \in Workers, resolve \in {"found", "notfound", "error"},
          statuses \in StatusSeqs, sendOk \in BOOLEAN :
            ProcessJob(w, resolve, statuses, sendOk)
    \/ \E w \in Workers, ok \in BOOLEAN : Reenqueue(w, ok)
    \/ \E w \in Workers, ok \in BOOLEAN : SendError(w, ok)
    \/ \E w \in Workers, ok \in BOOLEAN : XAck(w, ok)
    \/ \E w \in Workers, ok \in BOOLEAN : XDel(w, ok)

SpecSteady == InitSteady /\ [][NextSteady]_vars

(* --------------------- a run in which nothing fails -------------------- *)

\* one consumer's steps when Redis, the store and the platform all answer
WorkerStep(w) ==
    \/ Start(w, TRUE)
    \/ Read(w)
    \/ \E resolve \in {"found", "notfound"}, statuses \in StatusSeqs :
          ProcessJob(w, resolve, statuses, TRUE)
    \/ Reenqueue(w, TRUE)
    \/ SendError(w, TRUE)
    \/ XAck(w, TRUE)
    \/ XDel(w, TRUE)

NextReliable ==
    \/ \E p \in Producers, chat \in Chats : Ask(p, chat, TRUE)
    \/ \E w \in Workers : WorkerStep(w)

\* every consumer goroutine keeps running: Start launches the loops and each loop
\* iterates until the context is cancelled
FairSpec == Init /\ [][NextReliable]_vars /\ \A w \in Workers : WF_vars(WorkerStep(w))

(* ------------- the retry-exhaust scenario: a provider that is down ----- *)

InitRetryExhaust ==
    /\ maxJobRetries = DefaultJobRetries
    /\ providerRetries = DefaultProviderRetries
    /\ jobLimit = MaxJobsFaulty /\ faultLimit = 0
    /\ InitState
    /\ EmptyStore
    /\ NoUpdates

\* the provider answers 503 to every call
Always503 == [k \in 1 .. providerRetries + 1 |-> 503]

NextRetryExhaust ==
    \/ \E p \in Producers, chat \in Chats : Ask(p, chat, TRUE)
    \/ \E w \in Workers : Start(w, TRUE)
    \/ \E w \in Workers : Read(w)
    \/ \E w \in Workers : ProcessJob(w, "found", Always503, TRUE)
    \/ \E w \in Workers : Reenqueue(w, TRUE)
    \/ \E w \in Workers : SendError(w, TRUE)
    \/ \E w \in Workers : XAck(w, TRUE)
    \/ \E w \in Workers : XDel(w, TRUE)

SpecRetryExhaust == InitRetryExhaust /\ [][NextRetryExhaust]_vars

(* --------------------------- the rate limiter -------------------------- *)

HourTicks == HourSeconds * TicksPerSecond

\* now.UTC().Truncate(time.Hour) and windowStart.Add(time.Hour)
WindowStart(now) == now - (now % HourTicks)
WindowEnd(now) == WindowStart(now) + HourTicks

\* int64(windowEnd.Sub(now).Seconds()), at least 1: whole seconds, fraction dropped
TtlSeconds(now) ==
    LET d == (WindowEnd(now) - now) \div TicksPerSecond IN IF d < 1 THEN 1 ELSE d

\* "hyprbot:ratelimit:<chat>:<user>:<yyyymmddhh>"
RateKey(chat, user, now) == <<chat, user, WindowStart(now)>>

\* a key Redis still holds at the current tick
Live(key) == key \in DOMAIN rateKeys /\ rateKeys[key].exp > clock

\* incrWithTTLScript: INCR, and EXPIRE when the INCR made the key
ScriptCount(key) == IF Live(key) THEN rateKeys[key].n + 1 ELSE 1
ScriptKeys(key, ttl) ==
    LET kept == {k \in DOMAIN rateKeys : Live(k)} \cup {key} IN
    [k \in kept |->
        IF k # key THEN rateKeys[k]
        ELSE IF Live(key) THEN [n |-> rateKeys[key].n + 1, exp |-> rateKeys[key].exp]
        ELSE [n |-> 1, exp |-> clock + ttl * TicksPerSecond]]

\* RateLimiter.Allow up to the script call: now, the window, the ttl and the key
AllowBegin(r, chat, user) ==
    /\ inflight[r] = <<>>
    /\ Len(results) + Cardinality({q \in Replicas : inflight[q] # <<>>}) < MaxCalls
    /\ inflight' = [inflight EXCEPT ![r] = <<[chat |-> chat, user |-> user, now |-> clock]>>]
    /\ UNCHANGED <<cfgVars, backVars, frontVars, queueVars, workerVars, metricVars, faults, clock,
                   rateKeys, results>>

\* RateLimiter.Allow from the script on: the script runs atomically in Redis
AllowScript(r, ok) ==
    /\ inflight[r] # <<>>
    /\ LET c == inflight[r][1]
           key == RateKey(c.chat, c.user, c.now)
           res == ScriptCount(key)
       IN IF ok
            THEN /\ rateKeys' = ScriptKeys(key, TtlSeconds(c.now))
                 /\ results' = Append(results,
                       [chat |-> c.chat, user |-> c.user, now |-> c.now, at |-> clock,
                        err |-> FALSE, allowed |-> (res <= limit), used |-> res,
                        resetAt |-> WindowEnd(c.now)])
            ELSE /\ rateKeys' = rateKeys
                 /\ results' = Append(results,
                       [chat |-> c.chat, user |-> c.user, now |-> c.now, at |-> clock,
                        err |-> TRUE, allowed |-> FALSE, used |-> 0, resetAt |-> 0])
    /\ inflight' = [inflight EXCEPT ![r] = <<>>]
    /\ UNCHANGED <<cfgVars, backVars, frontVars, queueVars, workerVars, metricVars, faults, clock>>

Tick ==
    /\ clock < MaxTicks
    /\ clock' = clock + 1
    /\ UNCHANGED <<cfgVars, backVars, frontVars, queueVars, workerVars, metricVars, faults, rateKeys,
                   inflight, results>>

InitRate ==
    /\ maxJobRetries = DefaultJobRetries
    /\ providerRetries = DefaultProviderRetries
    /\ jobLimit = 0 /\ faultLimit = 0
    /\ InitState
    /\ EmptyStore
    /\ NoUpdates

NextRate ==
    \/ \E r \in Replicas, chat \in RateChats, user \in RateUsers :
          AllowBegin(r, chat, user)
    \/ \E r \in Replicas, ok \in BOOLEAN : AllowScript(r, ok)
    \/ Tick

SpecRate == InitRate /\ [][NextRate]_vars

(* ------------------------------- ingress ------------------------------- *)

\* the platform's updates, by update id: the sender (0: an update without a
\* user), the chat and the text
Updates ==
    << [user |-> AdminUserID, chat |-> 111, text |-> <<"/ask", " ", "a">>],
       [user |-> OtherUserID, chat |-> 111, text |-> <<"/ai", " ", "p", "\n", "a", " ", "b">>],
       [user |-> OtherUserID, chat |-> 111, text |-> <<"/ask">>],
       [user |-> 0, chat |-> 111, text |-> <<"/ai", " ", "p", " ", " ", "a">>] >>

\* message texts are sequences of symbols: a command word, letters, a space, a
\* newline
IsSpace(c) == c \in {" ", "\n", "\t"}

\* strings.TrimSpace
RECURSIVE TrimLeft(_)
TrimLeft(s) == IF s # <<>> /\ IsSpace(Head(s)) THEN TrimLeft(Tail(s)) ELSE s
RECURSIVE TrimRight(_)
TrimRight(s) ==
    IF s # <<>> /\ IsSpace(s[Len(s)]) THEN TrimRight(SubSeq(s, 1, Len(s) - 1)) ELSE s
TrimSpace(s) == TrimRight(TrimLeft(s))

\* strings.IndexByte(s, ' '): the first index of a space, 0 if there is none
IndexSpace(s) ==
    IF \E k \in DOMAIN s : s[k] = " "
      THEN SetMin({k \in DOMAIN s : s[k] = " "}) ELSE 0

\* an index function that takes any white space for a separator
IndexAnySpace(s) ==
    IF \E k \in DOMAIN s : IsSpace(s[k])
      THEN SetMin({k \in DOMAIN s : IsSpace(s[k])}) ELSE 0

\* commandRemainder: strings.SplitN(strings.TrimSpace(text), " ", 2)[1]
commandRemainder(text) ==
    LET t == TrimSpace(text)
        idx == IndexSpace(t)
    IN IF idx = 0 THEN <<>> ELSE SubSeq(t, idx + 1, Len(t))

\* splitFirstWord
splitFirstWord(str) ==
    LET s == TrimSpace(str)
        idx == IndexSpace(s)
    IN IF s = <<>> THEN [first |-> <<>>, rest |-> <<>>]
       ELSE IF idx = 0 THEN [first |-> s, rest |-> <<>>]
       ELSE [first |-> SubSeq(s, 1, idx - 1),
             rest |-> TrimSpace(SubSeq(s, idx + 1, Len(s)))]

\* Service.ask and Service.ai up to the usage reply: the job's preset and prompt
ParseCommand(text) ==
    LET rest == TrimSpace(commandRemainder(text)) IN
    IF Head(text) = "/ask"
      THEN [preset |-> <<>>, prompt |-> rest, usage |-> rest = <<>>]
      ELSE LET w == splitFirstWord(rest) IN
           [preset |-> w.first, prompt |-> w.rest,
            usage |-> w.first = <<>> \/ w.rest = <<>>]

UsageAskText == "Usage: /ask <text>"
UsageAiText == "Usage: /ai <preset> <text>"
RateLimitText == "Rate limit exceeded. Try again after "
QueueDownText == "Queue is unavailable right now."
AcceptedText == "Accepted. Processing in queue."

\* the dedup key of update u is still in Redis
DedupLive(u) == u \in DOMAIN dedupKeys /\ dedupKeys[u] > clock

\* a dedup that marks without looking (SET instead of SET NX)
MarkFirstAlways(u) == TRUE

\* UpdateDeduplicator.MarkFirst: SET key 1 NX EX ttl
MarkFirst(u) == ~DedupLive(u)

\* a processor that drops the update when the dedup store fails
DispatchedFailClosed(dedupOk, first) == dedupOk /\ first

\* Processor.ProcessUpdate: dropped only when MarkFirst answered "not first"
Dispatched(dedupOk, first) == ~dedupOk \/ first

\* Processor.ProcessUpdate: count, dedup, hand over to the dispatcher
ProcessUpdate(r, u, dedupOk) ==
    /\ pending[r] = <<>>
    /\ Len(deliveries) < MaxDeliveries
    /\ Outcome(dedupOk)
    /\ LET first == dedupOk /\ MarkFirst(u)
           go == Dispatched(dedupOk, first)
       IN /\ dedupKeys' = IF first
                            THEN [k \in DOMAIN dedupKeys \cup {u} |->
                                     IF k = u THEN clock + DedupTtlTicks ELSE dedupKeys[k]]
                            ELSE dedupKeys
          /\ deliveries' = Append(deliveries,
                [update |-> u, at |-> clock,
                 dedup |-> IF ~dedupOk THEN "error" ELSE IF first THEN "first" ELSE "seen",
                 dispatched |-> go, handled |-> FALSE, reply |-> "", resetAt |-> 0,
                 rate |-> "none", rateErr |-> FALSE, upsert |-> FALSE,
                 enqueue |-> FALSE, entry |-> 0])
          /\ pending' = [pending EXCEPT ![r] = IF go THEN <<Len(deliveries) + 1>> ELSE <<>>]
    /\ UNCHANGED <<cfgVars, backVars, queueVars, workerVars, metricVars, rateVars, wizardVars,
                   accessMode, chats, payloads>>


\* a limiter whose failure denies the request
RateOutcomeFailClosed(user, rateOk, used) ==
    IF user = 0 THEN "skipped"
    ELSE IF ~rateOk THEN "denied"
    ELSE IF used <= limit THEN "allowed" ELSE "denied"

\* Service.allowRate: no user or a limiter error lets the request through
RateOutcome(user, rateOk, used) ==
    IF user = 0 THEN "skipped"
    ELSE IF ~rateOk THEN "error"
    ELSE IF used <= limit THEN "allowed" ELSE "denied"

\* Service.ask / Service.ai: usage check, rate limit, chat upsert, enqueue, reply.
\* rateOk, chatOk, enqueueOk: whether Redis and the store answer
Handle(r, rateOk, chatOk, enqueueOk) ==
    /\ pending[r] # <<>>
    /\ Outcome(rateOk /\ chatOk /\ enqueueOk)
    /\ LET d == pending[r][1]
           u == Updates[deliveries[d].update]
           cmd == ParseCommand(u.text)
           key == RateKey(u.chat, u.user, clock)
           used == ScriptCount(key)
           rate == IF cmd.usage THEN "none" ELSE RateOutcome(u.user, rateOk, used)
           scriptRan == ~cmd.usage /\ u.user # 0 /\ rateOk
           goOn == ~cmd.usage /\ rate # "denied"
           id == Len(added) + 1
           reply == IF cmd.usage
                      THEN (IF Head(u.text) = "/ask" THEN UsageAskText ELSE UsageAiText)
                    ELSE IF rate = "denied" THEN RateLimitText
                    ELSE IF enqueueOk THEN AcceptedText ELSE QueueDownText
       IN /\ rateKeys' = IF scriptRan THEN ScriptKeys(key, TtlSeconds(clock)) ELSE rateKeys
          /\ chats' = IF goOn /\ chatOk THEN chats \cup {u.chat} ELSE chats
          /\ IF goOn /\ enqueueOk
               THEN /\ XAdd(nextJob, u.chat, 0, 0, "ingress")
                    /\ payloads' = [k \in DOMAIN payloads \cup {id} |->
                                      IF k = id THEN [preset |-> cmd.preset,
                                                      prompt |-> cmd.prompt,
                                                      user |-> u.user]
                                      ELSE payloads[k]]
                    /\ enqueuedJobs' = enqueuedJobs + 1
               ELSE UNCHANGED <<added, stream, payloads, enqueuedJobs>>
          /\ deliveries' = [deliveries EXCEPT ![d] =
                [@ EXCEPT !.handled = TRUE, !.reply = reply,
                          !.resetAt = IF rate = "denied" /\ rateOk THEN WindowEnd(clock) ELSE 0,
                          !.rate = rate,
                          !.rateErr = (~cmd.usage /\ u.user # 0 /\ ~rateOk),
                          !.upsert = goOn, !.enqueue = goOn,
                          !.entry = IF goOn /\ enqueueOk THEN id ELSE 0]]
    /\ pending' = [pending EXCEPT ![r] = <<>>]
    /\ UNCHANGED <<cfgVars, backVars, groupExists, lastDelivered, pel, workerVars, processedJobs,
                   failedJobs, clock, inflight, results, accessMode,
                   dedupKeys, wizardVars>>

\* time passes at ingress
IngressTick == clock < MaxIngressTicks /\ Tick

InitIngress ==
    /\ maxJobRetries = DefaultJobRetries
    /\ providerRetries = DefaultProviderRetries
    /\ jobLimit = 0 /\ faultLimit = MaxFaults
    /\ InitState
    /\ EmptyStore
    /\ accessMode \in {"public", "private"}
    /\ admins = {} /\ currentKeyID = "k1"
    /\ providers = {}
    /\ lastId = 0 /\ handlerLimit = 0 /\ cmdLimit = 0

NextIngress ==
    \/ \E r \in Replicas, u \in DOMAIN Updates, dedupOk \in BOOLEAN :
          ProcessUpdate(r, u, dedupOk)
    \/ \E r \in Replicas, rateOk \in BOOLEAN, chatOk \in BOOLEAN, enqueueOk \in BOOLEAN :
          Handle(r, rateOk, chatOk, enqueueOk)
    \/ IngressTick

SpecIngress == InitIngress /\ [][NextIngress]_vars

(* ------------------------------ the wizard ----------------------------- *)

\* the texts a user sends to the bot in the private chat
WizardTexts == {"OpenAI-Compat", "custom", "Responses", "-", "null", "{\"a\":\"b\"}"}

\* strings.ToLower on these texts
ToLower(text) ==
    IF text = "OpenAI-Compat" THEN "openai-compat"
    ELSE IF text = "Responses" THEN "responses"
    ELSE text

\* normalizeProviderKind: "" for a text that names no provider type
normalizeProviderKind(text) ==
    IF ToLower(text) \in {"openai", "openai_compat", "openai-compatible", "openai-compat"}
      THEN "openai_compat"
    ELSE IF ToLower(text) \in {"custom_http", "custom-http", "custom"}
      THEN "custom_http"
    ELSE ""

\* the length of a text and whether all its characters are letters, digits, _ or -
TextLen(text) ==
    IF text = "OpenAI-Compat" THEN 13
    ELSE IF text = "custom" THEN 6
    ELSE IF text = "Responses" THEN 9
    ELSE IF text = "-" THEN 1
    ELSE IF text = "null" THEN 4
    ELSE 9
NameCharsOnly(text) == text \in {"OpenAI-Compat", "custom", "Responses", "-", "null"}

\* providerNameRegex.MatchString: ^[a-zA-Z0-9_-]{1,64}$
NameMatches(text) ==
    NameCharsOnly(text) /\ TextLen(text) >= 1 /\ TextLen(text) <= MaxNameLen

\* json.Unmarshal of the text into a map[string]string returns no error: a JSON
\* object of strings, and also the JSON null
UnmarshalsToMap(text) == text \in {"{\"a\":\"b\"}", "null"}

\* the text is a JSON object
IsJsonObject(text) == text = "{\"a\":\"b\"}"

NoSession == [step |-> "none"]

\* llmWizardState as beginLLMAddWizard makes it
NewSession(target) ==
    [step |-> "kind", target |-> target, kind |-> "", name |-> "", baseURL |-> "",
     endpoint |-> "", headers |-> "", exp |-> 0]

\* the Redis key of a session: the state and exp, the tick the key expires at
Stored(state) == [state EXCEPT !.exp = clock + WizardTtlTicks]

\* wizardStore.Set: SET key json with the wizard TTL
Set(u, state) == [sessions EXCEPT ![u] = Stored(state)]

\* Service.isAdmin: the cached answer if there is one, else the platform's
CachedAdmin(chat, user) == <<chat, user>> \in DOMAIN adminCache
IsAdminAnswer(chat, user) ==
    IF CachedAdmin(chat, user) THEN adminCache[<<chat, user>>]
    ELSE <<chat, user>> \in admins

\* a wizard that starts whatever the admin check says
MayBeginAlways(adminOk, admin) == TRUE

\* beginLLMAddWizard: a failed or negative admin check ends the handler
MayBegin(adminOk, admin) == adminOk /\ admin

\* Service.start with "/start llmadd_<payload>" in chat type chatType, then
\* beginLLMAddWizard. parsed: whether the payload is a number; payload: the number
Start_llmadd(u, chatType, parsed, payload, adminOk, setOk) ==
    /\ saves < MaxSaves
    /\ Outcome(adminOk /\ setOk)
    /\ LET cached == parsed /\ CachedAdmin(payload, u)
           \* the platform is asked only without a cached answer, and only it can fail
           checkOk == cached \/ adminOk
           admin == parsed /\ IsAdminAnswer(payload, u)
           begin == chatType = "private" /\ parsed /\ MayBegin(checkOk, admin)
           reply == IF chatType # "private" THEN "help"
                    ELSE IF ~parsed THEN "Invalid deep-link payload."
                    ELSE IF ~checkOk THEN "Could not verify admin rights. Please retry."
                    ELSE IF ~admin THEN "You are not an admin in that chat."
                    ELSE IF ~setOk THEN "Failed to start wizard."
                    ELSE "Wizard started. Send provider type: openai-compat or custom-http"
       IN /\ adminCache' =
                IF chatType = "private" /\ parsed /\ ~cached /\ adminOk
                  THEN [k \in DOMAIN adminCache \cup {<<payload, u>>} |->
                          IF k = <<payload, u>> THEN admin ELSE adminCache[k]]
                  ELSE adminCache
          /\ chats' = IF begin THEN chats \cup {payload} ELSE chats
          /\ sessions' = IF begin /\ setOk
                           THEN Set(u, NewSession(payload))
                           ELSE sessions
          /\ checked' = IF chatType = "private" /\ parsed /\ checkOk /\ admin
                          THEN checked \cup {<<payload, u>>} ELSE checked
          /\ lastMsg' = [op |-> "start", user |-> u, chatType |-> chatType,
                         reply |-> reply]
    /\ UNCHANGED <<cfgVars, backVars, queueVars, workerVars, metricVars, rateVars, accessMode,
                   dedupKeys, deliveries, pending, payloads, providers, auditLog, admins,
                   currentKeyID, saves>>


\* a wizard that asks every kind for the endpoint mode
AfterBaseURLEndpoint(kind) == "endpoint"

\* privateText, case "base_url": the step that follows depends on the kind
AfterBaseURL(kind) == IF kind = "openai_compat" THEN "endpoint" ELSE "headers"

\* privateText, the steps before api_key: whether the text is taken, and the
\* session to store if it is
StepResult(state, text) ==
    IF state.step = "kind" THEN
        [taken |-> normalizeProviderKind(text) # "",
         next |-> [state EXCEPT !.kind = normalizeProviderKind(text), !.step = "name"]]
    ELSE IF state.step = "name" THEN
        [taken |-> NameMatches(text),
         next |-> [state EXCEPT !.name = text, !.step = "base_url"]]
    ELSE IF state.step = "base_url" THEN
        [taken |-> TRUE,
         next |-> [state EXCEPT !.baseURL = text, !.step = AfterBaseURL(state.kind)]]
    ELSE IF state.step = "endpoint" THEN
        [taken |-> ToLower(text) \in {"chat_completions", "responses"},
         next |-> [state EXCEPT !.endpoint = ToLower(text), !.step = "api_key"]]
    ELSE \* "headers"
        [taken |-> text = "-" \/ UnmarshalsToMap(text),
         next |-> [state EXCEPT !.headers = IF text = "-" THEN "" ELSE text,
                                !.step = "api_key"]]

Unset == [set |-> FALSE]

\* a manager that returns the value as it is
MarshalPlain(value, nonce) == [set |-> TRUE, form |-> "plain", text |-> value]

\* Manager.MarshalEncryptedString: the JSON of the envelope Encrypt makes with the
\* current key and a nonce from the RNG
MarshalEncryptedString(value, nonce) ==
    [set |-> TRUE, form |-> "envelope", key_id |-> currentKeyID,
     nonce |-> <<"base64", nonce>>,
     ciphertext |-> <<"base64", <<"seal", currentKeyID, nonce, value>>>>]

\* finishWizard: enc_api_key, enc_headers_json and config_json of the row
ProviderRow(state, apiKey, n1, n2) ==
    [chat |-> state.target, name |-> state.name, kind |-> state.kind,
     baseURL |-> state.baseURL,
     encAPIKey |-> IF apiKey # "" THEN MarshalEncryptedString(apiKey, n1) ELSE Unset,
     encHeaders |-> IF state.headers # "" THEN MarshalEncryptedString(state.headers, n2)
                    ELSE Unset,
     config |-> IF state.kind = "openai_compat" THEN <<"endpoint", state.endpoint>>
                ELSE <<>>]

\* a row of provider_instances: the columns of the insert and the id
WithId(row, id) == [f \in DOMAIN row \cup {"id"} |-> IF f = "id" THEN id ELSE row[f]]

\* the rows the insert conflicts with: UNIQUE(chat_id, name)
Conflicting(row) == {p \in providers : p.chat = row.chat /\ p.name = row.name}

\* the config_json column: the empty string is stored as the empty object
NoConfig == <<"">>
StoredConfig(config) == IF config = NoConfig THEN <<>> ELSE config

\* an insert without the conflict clause
InsertProviderInstance(row) == providers \cup {WithId(row, lastId + 1)}

\* an upsert that deletes the old row and inserts a new one
ReplaceProviderInstance(row) ==
    (providers \ Conflicting(row)) \cup {WithId(row, lastId + 1)}

\* Store.UpsertProviderInstance: INSERT ... ON CONFLICT(chat_id, name) DO UPDATE
\* of every column but the id; a new row takes the next id of the sequence
UpsertProviderInstance(row) ==
    LET stored == [row EXCEPT !.config = StoredConfig(row.config)] IN
    IF Conflicting(row) = {}
      THEN providers \cup {WithId(stored, lastId + 1)}
      ELSE (providers \ Conflicting(row))
             \cup {WithId(stored, p.id) : p \in Conflicting(row)}

\* the sequence after the upsert
NextProviderId(row) == IF Conflicting(row) = {} THEN lastId + 1 ELSE lastId

\* Service.audit / Store.LogAction
Audit(entry) == Append(auditLog, entry)

\* the calls of privateText and finishWizard that can fail; "upsert": nothing is
\* written, "idfail": the row is written and the read-back of its id fails
WizardFailures ==
    {"none", "get", "set", "crypto", "upsert", "idfail", "audit", "clear", "audit+clear"}

\* Service.privateText for a text of user u. fail: the call that fails; n1, n2: the
\* nonces the RNG gives
privateText(u, text, fail, n1, n2) ==
    /\ Outcome(fail = "none")
    /\ LET getOk == fail # "get"
           setOk == fail # "set"
           cryptoOk == fail # "crypto"
           upsert == IF fail = "upsert" THEN "fail" ELSE IF fail = "idfail" THEN "idfail"
                     ELSE "ok"
           auditOk == fail \notin {"audit", "audit+clear"}
           clearOk == fail \notin {"clear", "audit+clear"}
           state == sessions[u]
           atKey == state.step = "api_key"
           res == StepResult(state, text)
           apiKey == IF text = "-" THEN "" ELSE text
           row == ProviderRow(state, apiKey, n1, n2)
           \* the crypto manager is called only for a value that is not blank
           sealed == cryptoOk \/ (apiKey = "" /\ state.headers = "")
           written == getOk /\ atKey /\ sealed /\ upsert # "fail"
           saved == getOk /\ atKey /\ sealed /\ upsert = "ok"
           reply == IF ~getOk THEN "Wizard state error. Start again with /llm_add."
                    ELSE IF state = NoSession THEN ""
                    ELSE IF atKey
                      THEN (IF saved THEN "Provider saved. Use /llm_list in group."
                            ELSE "Failed to save provider. Try again with /llm_add.")
                    ELSE IF ~res.taken THEN "again"
                    ELSE IF ~setOk THEN "Failed to persist wizard state."
                    ELSE "prompt"
       IN /\ providers' = IF written THEN UpsertProviderInstance(row) ELSE providers
          /\ lastId' = IF written THEN NextProviderId(row) ELSE lastId
          /\ saves' = IF written THEN saves + 1 ELSE saves
          /\ auditLog' = IF saved /\ auditOk
                           THEN Audit([chat |-> state.target, user |-> u,
                                       action |-> "provider_add", name |-> state.name,
                                       kind |-> state.kind])
                           ELSE auditLog
          /\ sessions' =
                IF ~getOk \/ state = NoSession THEN sessions
                ELSE IF atKey
                  THEN (IF saved /\ clearOk THEN [sessions EXCEPT ![u] = NoSession]
                        ELSE sessions)
                ELSE IF res.taken /\ setOk THEN Set(u, res.next)
                ELSE sessions
          /\ lastMsg' = [op |-> "text", user |-> u, text |-> text, reply |-> reply]
    /\ UNCHANGED <<cfgVars, presets, defaults, handlers, handlerLimit, cmds,
                   cmdLimit, calc, call, runVars, queueVars, workerVars, metricVars, rateVars, ingressVars,
                   admins, adminCache, currentKeyID, checked>>

\* Service.cancelWizard: /cancel in the private chat
cancelWizard(u, ok) ==
    /\ sessions[u] # NoSession
    /\ Outcome(ok)
    /\ sessions' = IF ok THEN [sessions EXCEPT ![u] = NoSession] ELSE sessions
    /\ lastMsg' = [op |-> "cancel", user |-> u]
    /\ UNCHANGED <<cfgVars, backVars, queueVars, workerVars, metricVars, rateVars, ingressVars,
                   providers, auditLog, admins, adminCache, currentKeyID, checked, saves>>

\* the session's TTL runs out
SessionExpires(u) ==
    /\ sessions[u] # NoSession
    /\ sessions' = [sessions EXCEPT ![u] = NoSession]
    /\ lastMsg' = [op |-> "expire", user |-> u]
    /\ UNCHANGED <<cfgVars, backVars, queueVars, workerVars, metricVars, faults, rateVars,
                   ingressVars, providers, auditLog, admins, adminCache, currentKeyID,
                   checked, saves>>

\* the platform: a user loses the admin rights in a chat
AdminRevoked(chat, user) ==
    /\ <<chat, user>> \in admins
    /\ admins' = admins \ {<<chat, user>>}
    /\ lastMsg' = [op |-> "none"]
    /\ UNCHANGED <<cfgVars, backVars, queueVars, workerVars, metricVars, faults, rateVars,
                   ingressVars, sessions, providers, auditLog, adminCache, currentKeyID,
                   checked, saves>>

\* the cached admin answer's TTL runs out
AdminCacheExpires(chat, user) ==
    /\ <<chat, user>> \in DOMAIN adminCache
    /\ adminCache' = [k \in DOMAIN adminCache \ {<<chat, user>>} |-> adminCache[k]]
    /\ lastMsg' = [op |-> "none"]
    /\ UNCHANGED <<cfgVars, backVars, queueVars, workerVars, metricVars, faults, rateVars,
                   ingressVars, sessions, providers, auditLog, admins, currentKeyID,
                   checked, saves>>

\* key rotation: the service is redeployed with the next key as the current one
RotateKey ==
    /\ currentKeyID = "k1"
    /\ currentKeyID' = "k2"
    /\ lastMsg' = [op |-> "none"]
    /\ UNCHANGED <<cfgVars, backVars, queueVars, workerVars, metricVars, faults, rateVars,
                   ingressVars, sessions, providers, auditLog, admins, adminCache,
                   checked, saves>>

\* the texts a user sends at a step: inputs the step takes and inputs it refuses
TextsAt(step) ==
    IF step = "kind" THEN {"OpenAI-Compat", "custom", "null"}
    ELSE IF step = "name" THEN {"custom", "Responses", "{\"a\":\"b\"}"}
    ELSE IF step = "base_url" THEN {"null"}
    ELSE IF step = "endpoint" THEN {"Responses", "null"}
    ELSE IF step = "headers" THEN {"-", "{\"a\":\"b\"}", "null", "custom"}
    ELSE IF step = "api_key" THEN {"-", "custom"}
    ELSE {"custom"}

\* a user sends a text to the bot in the private chat
UserWrites(u, text, fail, n1, n2) ==
    /\ text \in TextsAt(sessions[u].step)
    /\ privateText(u, text, fail, n1, n2)

\* a row an earlier run of the wizard left in the target chat
EarlierRow ==
    [chat |-> 222, name |-> "custom", kind |-> "custom_http", baseURL |-> "null",
     encAPIKey |-> Unset, encHeaders |-> Unset, config |-> <<>>, id |-> 1]

InitWizard ==
    /\ maxJobRetries = DefaultJobRetries
    /\ providerRetries = DefaultProviderRetries
    /\ jobLimit = 0 /\ faultLimit = MaxFaults
    /\ InitState
    /\ EmptyStore
    /\ accessMode = "public"
    /\ admins \in SUBSET {<<c, AdminUserID>> : c \in TargetChats}
    /\ currentKeyID = "k1"
    /\ providers = {EarlierRow}
    /\ lastId = EarlierRow.id /\ handlerLimit = 0 /\ cmdLimit = 0

NextWizard ==
    \/ \E u \in WizardUsers, chatType \in {"private", "group"},
          parsed \in BOOLEAN, payload \in TargetChats, adminOk \in BOOLEAN,
          setOk \in BOOLEAN :
            Start_llmadd(u, chatType, parsed, payload, adminOk, setOk)
    \/ \E u \in WizardUsers, text \in WizardTexts, fail \in WizardFailures,
          n1 \in Nonces, n2 \in Nonces :
            UserWrites(u, text, fail, n1, n2)
    \/ \E u \in WizardUsers, ok \in BOOLEAN : cancelWizard(u, ok)
    \/ \E u \in WizardUsers : SessionExpires(u)
    \/ \E c \in TargetChats, u \in WizardUsers : AdminRevoked(c, u)
    \/ \E c \in TargetChats, u \in WizardUsers : AdminCacheExpires(c, u)
    \/ RotateKey

SpecWizard == InitWizard /\ [][NextWizard]_vars

(* ---------------------- the wizard session through time -------------------- *)

\* the session's key is gone at the tick it expires at
Due(u, now) == sessions[u] # NoSession /\ sessions[u].exp <= now

\* time passes by one tick; Redis drops the keys whose TTL has run out
SessionTick ==
    /\ clock < MaxWizardTicks
    /\ clock' = clock + 1
    /\ sessions' = [u \in WizardUsers |->
                      IF Due(u, clock + 1) THEN NoSession ELSE sessions[u]]
    /\ lastMsg' = [op |-> "tick"]
    /\ UNCHANGED <<cfgVars, backVars, queueVars, workerVars, metricVars, faults,
                   rateKeys, inflight, results, ingressVars, providers, auditLog,
                   admins, adminCache, currentKeyID, checked, saves>>

\* the admin of both target chats opens the wizard, writes and cancels
InitSession ==
    /\ InitWizard
    /\ admins = {<<c, AdminUserID>> : c \in TargetChats}

NextSession ==
    \/ \E u \in WizardUsers, payload \in TargetChats, setOk \in BOOLEAN :
            Start_llmadd(u, "private", TRUE, payload, TRUE, setOk)
    \/ \E u \in WizardUsers, text \in WizardTexts, fail \in WizardFailures :
            UserWrites(u, text, fail, 1, 1)
    \/ \E u \in WizardUsers, ok \in BOOLEAN : cancelWizard(u, ok)
    \/ SessionTick

SpecSession == InitSession /\ [][NextSession]_vars

(* ----------------------------- the admin check ----------------------------- *)

\* the users whose rights are checked
AdminUsers == {AdminUserID, OtherUserID}

\* Service.isAdmin: a cached "0" or "1" is the answer; without one the platform is
\* asked, and its error is the call's error
IsAdminResult(chat, user, platformOk) ==
    IF CachedAdmin(chat, user)
      THEN [err |-> FALSE, answer |-> adminCache[<<chat, user>>]]
    ELSE IF platformOk
      THEN [err |-> FALSE, answer |-> <<chat, user>> \in admins]
    ELSE [err |-> TRUE, answer |-> FALSE]

\* Service.isAdmin: the platform's answer, positive or negative, is cached
CacheAfter(chat, user, platformOk) ==
    IF ~CachedAdmin(chat, user) /\ platformOk
      THEN [k \in DOMAIN adminCache \cup {<<chat, user>>} |->
              IF k = <<chat, user>> THEN <<chat, user>> \in admins ELSE adminCache[k]]
      ELSE adminCache

\* one call of Service.isAdmin
isAdmin(chat, user, platformOk) ==
    /\ Outcome(platformOk)
    /\ adminCache' = CacheAfter(chat, user, platformOk)
    /\ lastMsg' = [op |-> "check", chat |-> chat, user |-> user,
                   err |-> IsAdminResult(chat, user, platformOk).err,
                   answer |-> IsAdminResult(chat, user, platformOk).answer]
    /\ UNCHANGED <<cfgVars, backVars, queueVars, workerVars, metricVars, rateVars,
                   ingressVars, sessions, providers, auditLog, admins, currentKeyID,
                   checked, saves>>

\* the platform: a user is made administrator of a chat
AdminGranted(chat, user) ==
    /\ <<chat, user>> \notin admins
    /\ admins' = admins \cup {<<chat, user>>}
    /\ lastMsg' = [op |-> "none"]
    /\ UNCHANGED <<cfgVars, backVars, queueVars, workerVars, metricVars, faults,
                   rateVars, ingressVars, sessions, providers, auditLog, adminCache,
                   currentKeyID, checked, saves>>

InitAdminCheck ==
    /\ maxJobRetries = DefaultJobRetries
    /\ providerRetries = DefaultProviderRetries
    /\ jobLimit = 0 /\ faultLimit = MaxFaults
    /\ InitState
    /\ EmptyStore
    /\ NoUpdates

NextAdminCheck ==
    \/ \E c \in TargetChats, u \in AdminUsers, ok \in BOOLEAN : isAdmin(c, u, ok)
    \/ \E c \in TargetChats, u \in AdminUsers : AdminGranted(c, u)
    \/ \E c \in TargetChats, u \in AdminUsers : AdminRevoked(c, u)
    \/ \E c \in TargetChats, u \in AdminUsers : AdminCacheExpires(c, u)

SpecAdminCheck == InitAdminCheck /\ [][NextAdminCheck]_vars

(* --------------------------- the admin commands --------------------------- *)

\* the chat the commands are sent in, the names they carry ("" is a command
\* without its argument) and the commands
AdminChat == 222
PresetNames == {"a", "b"}
ProviderNames == {"p"}
AdminCommands ==
    {[cmd |-> "ai_preset_add", name |-> n, prov |-> p] :
        n \in PresetNames \cup {""}, p \in ProviderNames}
    \cup {[cmd |-> c, name |-> n, prov |-> ""] :
            c \in {"ai_preset_del", "ai_default"}, n \in PresetNames \cup {""}}
    \cup {[cmd |-> "llm_del", name |-> n, prov |-> ""] : n \in ProviderNames \cup {""}}
    \cup {[cmd |-> c, name |-> "", prov |-> ""] : c \in {"llm_add", "llm_list"}}

\* the row a wizard completion writes for a chat and a name
AdminRow(chat, name) ==
    [chat |-> chat, name |-> name, kind |-> "custom_http", baseURL |-> "null",
     encAPIKey |-> Unset, encHeaders |-> Unset, config |-> <<>>]

Busy == {h \in Slots : handlers[h] # Idle}

\* what a step of an admin command leaves alone
adminFrame ==
    <<cfgVars, queueVars, workerVars, metricVars, rateVars, accessMode, dedupKeys,
      deliveries, pending, payloads, sessions, admins, currentKeyID, checked,
      saves, handlerLimit, cmdLimit, calc, call, runVars>>

\* Service.requireAdmin lets the handler go on
AdmitAlways(private, r) == TRUE
requireAdmin(private, r) == ~private /\ ~r.err /\ r.answer

\* the reply of a handler that ends before its first store call, "" if it goes on
FirstReply(c, private, r) ==
    IF private
      THEN IF c.cmd = "llm_add" THEN "Run /llm_add in your group/supergroup first."
                                ELSE "Run this command in group/supergroup."
    ELSE IF r.err THEN "Failed to verify admin rights."
    ELSE IF ~r.answer THEN "Only chat admins can run this command."
    ELSE ""

\* the usage reply of a command sent without its argument
MissingArgs(c) == c.cmd \notin {"llm_add", "llm_list"} /\ c.name = ""
Usage(c) ==
    IF c.cmd = "ai_preset_add"
      THEN "Usage: /ai_preset_add <name> <provider> <model> <system_prompt...>"
    ELSE IF c.cmd = "ai_preset_del" THEN "Usage: /ai_preset_del <name>"
    ELSE IF c.cmd = "ai_default" THEN "Usage: /ai_default <name>"
    ELSE "Usage: /llm_del <name>"

\* the first store call of a command
FirstStep(c) ==
    IF c.cmd = "ai_preset_add" THEN "getProvider"
    ELSE IF c.cmd = "ai_preset_del" THEN "deletePreset"
    ELSE IF c.cmd = "ai_default" THEN "getPreset"
    ELSE IF c.cmd = "llm_list" THEN "listProviders"
    ELSE "deleteProvider"

\* the store's functions on presets and on the default pointer
PresetsNamed(chat, name) == {q \in presets : q.chat = chat /\ q.name = name}
UpsertPreset(chat, name, pid) ==
    (presets \ PresetsNamed(chat, name)) \cup {[chat |-> chat, name |-> name, pid |-> pid]}
DeletePreset(chat, name) == presets \ PresetsNamed(chat, name)
LeavePointer(chat, name) == defaults
LeaveDefault(chat) == defaults
HasDefault(chat) == chat \in chats /\ defaults[chat] # ""
SetDefaultPreset(chat, name) ==
    IF chat \in chats THEN [defaults EXCEPT ![chat] = name] ELSE defaults
ClearDefaultPreset(chat) == [defaults EXCEPT ![chat] = ""]
ProvidersNamed(chat, name) == {p \in providers : p.chat = chat /\ p.name = name}
\* getPresetWithProvider: the preset joined with its provider row
PresetWithProvider(chat, name) ==
    {q \in PresetsNamed(chat, name) : \E p \in providers : p.id = q.pid}

\* a handler starts: requireAdmin and the command's arguments. fail: "platform",
\* the membership request fails; "ensure", the chat upsert fails. def0 and names0
\* remember the default pointer and the presets the handler started with.
Begin(h, c, chatType, user, fail) ==
    /\ handlers[h] = Idle
    /\ Cardinality(Busy) < handlerLimit
    /\ cmds < cmdLimit
    /\ Outcome(fail = "none")
    /\ LET private == chatType = "private"
           r == IF private THEN [err |-> FALSE, answer |-> FALSE]
                ELSE IsAdminResult(AdminChat, user, fail # "platform")
           ok == requireAdmin(private, r)
           reply == IF ~ok THEN FirstReply(c, private, r)
                    ELSE IF MissingArgs(c) THEN Usage(c)
                    ELSE IF c.cmd = "llm_add" THEN "Continue in private chat: link"
                    ELSE ""
           rec == [pc |-> FirstStep(c), cmd |-> c.cmd, chat |-> AdminChat,
                   user |-> user, name |-> c.name, prov |-> c.prov, pid |-> 0,
                   def0 |-> defaults[AdminChat],
                   names0 |-> {q.name : q \in {x \in presets : x.chat = AdminChat}}]
       IN /\ fail = "platform" => ~private /\ ~CachedAdmin(AdminChat, user)
          /\ fail = "ensure" => ok
          /\ adminCache' = IF private THEN adminCache
                           ELSE CacheAfter(AdminChat, user, fail # "platform")
          /\ chats' = IF ok /\ fail # "ensure" THEN chats \cup {AdminChat} ELSE chats
          /\ handlers' = [handlers EXCEPT ![h] = IF reply = "" THEN rec ELSE Idle]
          /\ lastMsg' = [op |-> "admin", slot |-> h, step |-> "begin", h |-> rec,
                         reply |-> reply, private |-> private, check |-> r]
    /\ cmds' = cmds + 1
    /\ UNCHANGED <<presets, defaults, providers, auditLog, lastId, adminFrame>>

\* a step of a handler: its record becomes rec (Idle when the handler returns),
\* the store becomes ps, ds, prs and, if entry is a row, the audit log gets it
NoEntry == [action |-> ""]
Step(h, step, rec, reply, ps, ds, prs, entry) ==
    /\ handlers' = [handlers EXCEPT ![h] = rec]
    /\ presets' = ps /\ defaults' = ds /\ providers' = prs
    /\ auditLog' = IF entry = NoEntry THEN auditLog ELSE Audit(entry)
    /\ lastMsg' = [op |-> "admin", slot |-> h, step |-> step, h |-> handlers[h],
                   reply |-> reply, private |-> FALSE,
                   check |-> [err |-> FALSE, answer |-> TRUE]]
    /\ UNCHANGED <<adminCache, chats, cmds, lastId, adminFrame>>

\* Service.audit of a handler; its error is discarded
AuditOf(h, action, fail) ==
    IF fail = "audit" THEN NoEntry
    ELSE [chat |-> handlers[h].chat, user |-> handlers[h].user, action |-> action,
          name |-> handlers[h].name, kind |-> handlers[h].prov]

StepFailures == {"none", "call", "audit"}
At(h, step) == handlers[h] # Idle /\ handlers[h].pc = step
Goto(h, step) == [handlers[h] EXCEPT !.pc = step]

\* aiPresetAdd: Store.GetProviderByName
GetProvider(h, ok) ==
    /\ At(h, "getProvider") /\ Outcome(ok)
    /\ LET found == ProvidersNamed(handlers[h].chat, handlers[h].prov) IN
       IF ~ok THEN Step(h, "getProvider", Idle, "Failed to read provider.",
                        presets, defaults, providers, NoEntry)
       ELSE IF found = {} THEN Step(h, "getProvider", Idle, "Provider not found.",
                                    presets, defaults, providers, NoEntry)
       ELSE \E p \in found :
              Step(h, "getProvider",
                   [handlers[h] EXCEPT !.pc = "upsertPreset", !.pid = p.id], "",
                   presets, defaults, providers, NoEntry)

\* aiPresetAdd: Store.UpsertPreset with the id read before
UpsertPresetStep(h, ok) ==
    /\ At(h, "upsertPreset") /\ Outcome(ok)
    /\ IF ~ok THEN Step(h, "upsertPreset", Idle, "Failed to save preset.",
                        presets, defaults, providers, NoEntry)
       ELSE Step(h, "upsertPreset", Goto(h, "getDefault"), "",
                 UpsertPreset(handlers[h].chat, handlers[h].name, handlers[h].pid),
                 defaults, providers, NoEntry)

\* aiPresetAdd: Store.GetDefaultPresetName; only ErrNotFound leads to the set
GetDefault(h, fail) ==
    /\ At(h, "getDefault") /\ Outcome(fail = "none")
    /\ IF fail = "none" /\ ~HasDefault(handlers[h].chat)
         THEN Step(h, "getDefault", Goto(h, "setDefault"), "",
                   presets, defaults, providers, NoEntry)
         ELSE /\ fail = "audit" => HasDefault(handlers[h].chat)
              /\ Step(h, "getDefault", Idle, "Preset saved.",
                      presets, defaults, providers, AuditOf(h, "preset_add", fail))

\* aiPresetAdd: Store.SetDefaultPreset, its error discarded, audit and reply
SetDefault(h, fail) ==
    /\ At(h, "setDefault") /\ Outcome(fail = "none")
    /\ Step(h, "setDefault", Idle, "Preset saved.", presets,
            IF fail = "call" THEN defaults
            ELSE SetDefaultPreset(handlers[h].chat, handlers[h].name),
            providers, AuditOf(h, "preset_add", fail))

\* aiPresetDel: Store.DeletePreset
DeletePresetStep(h, ok) ==
    /\ At(h, "deletePreset") /\ Outcome(ok)
    /\ IF ~ok THEN Step(h, "deletePreset", Idle, "Failed to delete preset.",
                        presets, defaults, providers, NoEntry)
       ELSE IF PresetsNamed(handlers[h].chat, handlers[h].name) = {}
         THEN Step(h, "deletePreset", Idle, "Preset not found.",
                   presets, defaults, providers, NoEntry)
       ELSE Step(h, "deletePreset", Goto(h, "readDefault"), "",
                 DeletePreset(handlers[h].chat, handlers[h].name),
                 defaults, providers, NoEntry)

\* aiPresetDel: Store.GetDefaultPresetName; the pointer is cleared only if the
\* read succeeds and gives the deleted name
ReadDefault(h, fail) ==
    /\ At(h, "readDefault") /\ Outcome(fail = "none")
    /\ LET isDefault == /\ HasDefault(handlers[h].chat)
                        /\ defaults[handlers[h].chat] = handlers[h].name
       IN IF fail = "none" /\ isDefault
            THEN Step(h, "readDefault", Goto(h, "clearDefault"), "",
                      presets, defaults, providers, NoEntry)
            ELSE /\ fail = "audit" => ~isDefault
                 /\ Step(h, "readDefault", Idle, "Preset deleted.",
                         presets, defaults, providers, AuditOf(h, "preset_del", fail))

\* aiPresetDel: Store.ClearDefaultPreset, its error discarded, audit and reply
ClearDefault(h, fail) ==
    /\ At(h, "clearDefault") /\ Outcome(fail = "none")
    /\ Step(h, "clearDefault", Idle, "Preset deleted.", presets,
            IF fail = "call" THEN defaults ELSE ClearDefaultPreset(handlers[h].chat),
            providers, AuditOf(h, "preset_del", fail))

\* aiDefault: Store.GetPresetWithProviderByName
GetPreset(h, ok) ==
    /\ At(h, "getPreset") /\ Outcome(ok)
    /\ IF ~ok THEN Step(h, "getPreset", Idle, "Failed to read preset.",
                        presets, defaults, providers, NoEntry)
       ELSE IF PresetWithProvider(handlers[h].chat, handlers[h].name) = {}
         THEN Step(h, "getPreset", Idle, "Preset not found.",
                   presets, defaults, providers, NoEntry)
       ELSE Step(h, "getPreset", Goto(h, "setPointer"), "",
                 presets, defaults, providers, NoEntry)

\* aiDefault: Store.SetDefaultPreset, audit and reply
SetPointer(h, fail) ==
    /\ At(h, "setPointer") /\ Outcome(fail = "none")
    /\ IF fail = "call" \/ handlers[h].chat \notin chats
         THEN /\ fail # "audit"
              /\ Step(h, "setPointer", Idle, "Failed to set default preset.",
                      presets, defaults, providers, NoEntry)
         ELSE Step(h, "setPointer", Idle, "Default preset updated.", presets,
                   SetDefaultPreset(handlers[h].chat, handlers[h].name), providers,
                   AuditOf(h, "preset_default", fail))

\* llmList: Store.ListProviders and the reply
ListProvidersStep(h, ok) ==
    /\ At(h, "listProviders") /\ Outcome(ok)
    /\ Step(h, "listProviders", Idle,
            IF ~ok THEN "Failed to list providers."
            ELSE IF {p \in providers : p.chat = handlers[h].chat} = {}
              THEN "No providers configured."
            ELSE "Providers:",
            presets, defaults, providers, NoEntry)

\* llmDel: Store.DeleteProviderByName, audit and reply; presets are not touched
DeleteProvider(h, fail) ==
    /\ At(h, "deleteProvider") /\ Outcome(fail = "none")
    /\ IF fail = "call"
         THEN Step(h, "deleteProvider", Idle, "Failed to delete provider.",
                   presets, defaults, providers, NoEntry)
       ELSE IF ProvidersNamed(handlers[h].chat, handlers[h].name) = {}
         THEN /\ fail # "audit"
              /\ Step(h, "deleteProvider", Idle, "Provider not found.",
                      presets, defaults, providers, NoEntry)
       ELSE Step(h, "deleteProvider", Idle, "Provider deleted.", presets, defaults,
                 providers \ ProvidersNamed(handlers[h].chat, handlers[h].name),
                 AuditOf(h, "provider_del", fail))

\* a wizard completes for a chat: finishWizard's Store.UpsertProviderInstance
SaveProvider(chat, name) ==
    /\ NextProviderId(AdminRow(chat, name)) <= MaxProviderId
    /\ providers' = UpsertProviderInstance(AdminRow(chat, name))
    /\ lastId' = NextProviderId(AdminRow(chat, name))
    /\ lastMsg' = [op |-> "wizard"]
    /\ UNCHANGED <<presets, defaults, handlers, auditLog, adminCache, chats, cmds,
                   faults, adminFrame>>

\* the stores the commands start from: a chat with one provider and no preset,
\* or with the presets a and b on it and a the default
FirstProvider == WithId(AdminRow(AdminChat, "p"), 1)
InitAdminStore ==
    /\ maxJobRetries = DefaultJobRetries
    /\ providerRetries = DefaultProviderRetries
    /\ jobLimit = 0 /\ faultLimit = MaxFaults
    /\ InitState
    /\ accessMode = "public" /\ currentKeyID = "k1"
    /\ admins = {<<AdminChat, AdminUserID>>}
    /\ chats = {AdminChat}
    /\ providers = {FirstProvider} /\ lastId = 1
    /\ \/ presets = {} /\ defaults = [c \in TargetChats |-> ""]
       \/ /\ presets = {[chat |-> AdminChat, name |-> n, pid |-> 1] : n \in PresetNames}
          /\ defaults = [c \in TargetChats |-> IF c = AdminChat THEN "a" ELSE ""]

InitAdmin == InitAdminStore /\ handlerLimit = 1 /\ cmdLimit = MaxCmds
InitAdminConcurrent == InitAdminStore /\ handlerLimit = 2 /\ cmdLimit = MaxCmdsConcurrent

NextAdmin ==
    \/ \E h \in Slots, c \in AdminCommands, t \in {"private", "group"},
          u \in AdminUsers, fail \in {"none", "platform", "ensure"} :
            Begin(h, c, t, u, fail)
    \/ \E h \in Slots, ok \in BOOLEAN : GetProvider(h, ok)
    \/ \E h \in Slots, ok \in BOOLEAN : UpsertPresetStep(h, ok)
    \/ \E h \in Slots, fail \in StepFailures : GetDefault(h, fail)
    \/ \E h \in Slots, fail \in StepFailures : SetDefault(h, fail)
    \/ \E h \in Slots, ok \in BOOLEAN : DeletePresetStep(h, ok)
    \/ \E h \in Slots, fail \in StepFailures : ReadDefault(h, fail)
    \/ \E h \in Slots, fail \in StepFailures : ClearDefault(h, fail)
    \/ \E h \in Slots, ok \in BOOLEAN : GetPreset(h, ok)
    \/ \E h \in Slots, fail \in StepFailures : SetPointer(h, fail)
    \/ \E h \in Slots, ok \in BOOLEAN : ListProvidersStep(h, ok)
    \/ \E h \in Slots, fail \in StepFailures : DeleteProvider(h, fail)
    \/ \E c \in TargetChats, n \in ProviderNames : SaveProvider(c, n)

SpecAdmin == InitAdmin /\ [][NextAdmin]_vars
SpecAdminConcurrent == InitAdminConcurrent /\ [][NextAdmin]_vars

(* ------------------------ the store's provider rows ------------------------ *)

\* the rows callers hand to Store.UpsertProviderInstance
StoreNames == {"p"}
StoreRowsIn ==
    {[chat |-> c, name |-> n, kind |-> k, baseURL |-> "null", encAPIKey |-> e,
      encHeaders |-> Unset, config |-> g] :
        c \in TargetChats, n \in StoreNames, k \in {"openai_compat", "custom_http"},
        e \in {Unset, MarshalPlain("null", 1)},
        g \in {NoConfig, <<>>, <<"endpoint", "responses">>}}

\* Store.GetProviderByName on the rows the table holds
GetProviderByName(rows, chat, name) == {p \in rows : p.chat = chat /\ p.name = name}

\* Store.UpsertProviderInstance: the upsert and the read of the row's id
UpsertCall(row, ok) ==
    /\ Outcome(ok)
    /\ ok => NextProviderId(row) <= MaxProviderId
    /\ providers' = IF ok THEN UpsertProviderInstance(row) ELSE providers
    /\ lastId' = IF ok THEN NextProviderId(row) ELSE lastId
    /\ calc' = [op |-> IF ok THEN "upsert" ELSE "failed", row |-> row,
                id |-> IF ok THEN {p.id : p \in GetProviderByName(
                                      UpsertProviderInstance(row), row.chat, row.name)}
                       ELSE {}]
    /\ UNCHANGED <<cfgVars, queueVars, workerVars, metricVars, rateVars, ingressVars,
                   sessions, auditLog, admins, adminCache, currentKeyID, checked,
                   lastMsg, saves, presets, defaults, handlers, handlerLimit, cmds,
                   cmdLimit, call, runVars>>

\* Store.GetProviderByName
GetCall(chat, name) ==
    /\ calc' = [op |-> "get", row |-> [chat |-> chat, name |-> name],
                got |-> GetProviderByName(providers, chat, name),
                after |-> calc]
    /\ calc.op # "get"
    /\ UNCHANGED <<cfgVars, queueVars, workerVars, metricVars, faults, rateVars,
                   frontVars, adminVars, call, runVars>>

\* Store.DeleteProviderByName
DeleteCall(chat, name) ==
    /\ GetProviderByName(providers, chat, name) # {}
    /\ providers' = providers \ GetProviderByName(providers, chat, name)
    /\ calc' = [op |-> "delete", row |-> [chat |-> chat, name |-> name]]
    /\ UNCHANGED <<cfgVars, queueVars, workerVars, metricVars, faults, rateVars,
                   ingressVars, sessions, auditLog, admins, adminCache, currentKeyID,
                   checked, lastMsg, saves, adminVars, call, runVars>>

InitStore ==
    /\ maxJobRetries = DefaultJobRetries
    /\ providerRetries = DefaultProviderRetries
    /\ jobLimit = 0 /\ faultLimit = MaxFaults
    /\ InitState
    /\ EmptyStore
    /\ NoUpdates

NextStore ==
    \/ \E row \in StoreRowsIn, ok \in BOOLEAN : UpsertCall(row, ok)
    \/ \E c \in TargetChats, n \in StoreNames : GetCall(c, n)
    \/ \E c \in TargetChats, n \in StoreNames : DeleteCall(c, n)

SpecStore == InitStore /\ [][NextStore]_vars

(* ------------------------- the envelope encryption ------------------------- *)

\* key material, the managers NewManager accepts (the current key id is one of the
\* manager's keys), the plaintexts and what the RNG gives: a nonce, or an error
Materials == {"m1", "m2"}
Managers ==
    {m \in {[current |-> c, keys |-> k] :
               c \in KeyIds, k \in UNION {[d -> Materials] : d \in SUBSET KeyIds}} :
        m.current \in DOMAIN m.keys}
Plaintexts == {"", "sk-1"}
CryptoNonces == {1, 2}
RngError == 0
Failed(why) == [err |-> TRUE, why |-> why]
Done(value) == [err |-> FALSE, value |-> value]

\* AES-GCM: Seal, and Open, which gives the plaintext only for the key and the
\* nonce of the Seal
Seal(key, nonce, plaintext) == <<"seal", key, nonce, plaintext>>
Open(key, nonce, ciphertext) ==
    IF Len(ciphertext) = 4 /\ ciphertext[1] = "seal" /\ ciphertext[2] = key
         /\ ciphertext[3] = nonce
      THEN Done(ciphertext[4])
      ELSE Failed("decrypt")

\* base64.StdEncoding
EncodeToString(bytes) == <<"base64", bytes>>
DecodeString(s) == IF Len(s) = 2 /\ s[1] = "base64" THEN Done(s[2]) ELSE Failed("decode")

\* Manager.Encrypt with the nonce the RNG gives
Encrypt(m, plaintext, nonce) ==
    IF nonce = RngError THEN Failed("nonce")
    ELSE Done([key_id |-> m.current, nonce |-> EncodeToString(nonce),
               ciphertext |-> EncodeToString(Seal(m.keys[m.current], nonce, plaintext))])

\* Manager.Decrypt
DecryptAny(m, env) == Done(DecodeString(env.ciphertext).value[4])
Decrypt(m, env) ==
    IF env.key_id \notin DOMAIN m.keys THEN Failed("unknown key id")
    ELSE IF DecodeString(env.nonce).err THEN Failed("decode nonce")
    ELSE IF DecodeString(env.ciphertext).err THEN Failed("decode ciphertext")
    ELSE Open(m.keys[env.key_id], DecodeString(env.nonce).value,
              DecodeString(env.ciphertext).value)

\* json.Marshal and json.Unmarshal of an Envelope
ToJSON(env) == <<"json", env.key_id, env.nonce, env.ciphertext>>
FromJSON(raw) ==
    IF Len(raw) = 4 /\ raw[1] = "json"
      THEN Done([key_id |-> raw[2], nonce |-> raw[3], ciphertext |-> raw[4]])
      ELSE Failed("unmarshal envelope")

\* Manager.MarshalEncryptedString and Manager.UnmarshalEncryptedString
Marshal(m, value, nonce) ==
    IF Encrypt(m, value, nonce).err THEN Encrypt(m, value, nonce)
    ELSE Done(ToJSON(Encrypt(m, value, nonce).value))
Unmarshal(m, raw) ==
    IF FromJSON(raw).err THEN FromJSON(raw) ELSE Decrypt(m, FromJSON(raw).value)

\* Manager.ReEncrypt
Restamp(m, raw, nonce) == Done(raw)
ReEncrypt(m, raw, nonce) ==
    IF Unmarshal(m, raw).err THEN Unmarshal(m, raw)
    ELSE Marshal(m, Unmarshal(m, raw).value, nonce)

\* strings that are no envelope a manager wrote: no JSON, a nonce that is not
\* base64, a ciphertext sealed with another nonce
ForeignStrings ==
    {<<"not json">>,
     <<"json", "k1", <<"!">>, EncodeToString(Seal("m1", 1, "sk-1"))>>,
     <<"json", "k1", EncodeToString(2), EncodeToString(Seal("m1", 1, "sk-1"))>>}

cryptoFrame ==
    <<cfgVars, queueVars, workerVars, metricVars, faults, rateVars, frontVars,
      adminVars, call, runVars>>

\* calc.raw is the string the last call produced or was given; calc.by the manager
\* that wrote it, calc.text its plaintext, if a manager wrote it
HasString == calc.op \in {"marshal", "reencrypt", "given"} /\ ~calc.res.err

\* a manager seals a plaintext
MarshalCall(m, value, nonce) ==
    /\ calc' = [op |-> "marshal", m |-> m, text |-> value, from |-> "none",
                raw |-> <<>>, res |-> Marshal(m, value, nonce)]
    /\ UNCHANGED cryptoFrame

\* a string from elsewhere
GivenString(raw) ==
    /\ calc.op = "none"
    /\ calc' = [op |-> "given", m |-> [current |-> "", keys |-> <<>>], text |-> "",
                from |-> "none", raw |-> <<>>, res |-> Done(raw)]
    /\ UNCHANGED cryptoFrame

\* a manager opens the string of the last call
UnmarshalCall(m) ==
    /\ HasString
    /\ calc' = [op |-> "unmarshal", m |-> m, text |-> calc.text, from |-> calc.op,
                raw |-> calc.res.value, by |-> calc.m,
                res |-> Unmarshal(m, calc.res.value)]
    /\ UNCHANGED cryptoFrame

\* a manager re-encrypts the string of the last call
ReEncryptCall(m, nonce) ==
    /\ HasString
    /\ calc' = [op |-> "reencrypt", m |-> m, text |-> calc.text, from |-> calc.op,
                raw |-> calc.res.value, by |-> calc.m,
                res |-> ReEncrypt(m, calc.res.value, nonce)]
    /\ UNCHANGED cryptoFrame

\* the result is dropped
Forget ==
    /\ calc.op # "none"
    /\ calc' = [op |-> "none"]
    /\ UNCHANGED cryptoFrame

InitCrypto ==
    /\ maxJobRetries = DefaultJobRetries
    /\ providerRetries = DefaultProviderRetries
    /\ jobLimit = 0 /\ faultLimit = 0
    /\ InitState
    /\ EmptyStore
    /\ NoUpdates

NextCrypto ==
    \/ \E m \in Managers, v \in Plaintexts, n \in CryptoNonces \cup {RngError} :
          MarshalCall(m, v, n)
    \/ \E raw \in ForeignStrings : GivenString(raw)
    \/ \E m \in Managers : UnmarshalCall(m)
    \/ \E m \in Managers, n \in CryptoNonces \cup {RngError} : ReEncryptCall(m, n)
    \/ Forget

SpecCrypto == InitCrypto /\ [][NextCrypto]_vars

(* ------------------------- the adapter's Chat call ------------------------- *)

\* the adapters, the MaxRetries they are configured with, and what one HTTP call
\* can come back with: a status and a body that parses or not, an error while the
\* body is read, an error of Do; "canceled" is Do's error for a cancelled context
Adapters == {"openai_compat", "custom_http"}
MaxRetriesChoices == {-1, 0, 1, 2}
Answers ==
    {[status |-> s, fault |-> f] : s \in {200, 400, 429, 500}, f \in {"none", "parse"}}
    \cup {[status |-> 200, fault |-> "read"], [status |-> 0, fault |-> "transport"],
          [status |-> 0, fault |-> "canceled"]}

\* callOnce: the error it returns for what came back ("" for none) and whether it
\* asks for another attempt
CallOnceErr(a) ==
    IF a.fault = "transport" THEN "request failed"
    ELSE IF a.fault = "canceled" THEN "request failed: context canceled"
    ELSE IF a.fault = "read" THEN "read response body"
    ELSE IF Retryable(a.status) THEN "provider temporary status"
    ELSE IF ~IsSuccess(a.status) THEN "provider status"
    ELSE IF a.fault = "parse" THEN "parse"
    ELSE ""
RetryAlways(a) == CallOnceErr(a) # ""
CallOnceRetry(a) ==
    a.fault \in {"transport", "canceled"}
      \/ (a.fault # "read" /\ Retryable(a.status))

Running == call.pc \in {"attempt", "inflight", "backoff"}
chatFrame ==
    <<cfgVars, queueVars, workerVars, metricVars, faults, rateVars, frontVars,
      adminVars, calc, runVars>>

\* New and the start of Client.Chat: a negative MaxRetries is 0; an error of
\* buildPayload ends the call before the loop
StartChat(adapter, retries, buildOk) ==
    /\ ~Running
    /\ call' = [pc |-> IF buildOk THEN "attempt" ELSE "done", adapter |-> adapter,
                maxRetries |-> IF retries < 0 THEN 0 ELSE retries,
                attempt |-> 0, sent |-> 0, cancelled |-> FALSE, late |-> FALSE,
                outs |-> <<>>, result |-> IF buildOk THEN "" ELSE "build payload"]
    /\ UNCHANGED chatFrame

\* the loop after callOnce came back with a: return, or wait for the backoff
AfterCallOnce(a, nsent, late) ==
    call' = [call EXCEPT
               !.outs = Append(call.outs, a), !.sent = nsent, !.late = late,
               !.pc = IF CallOnceErr(a) # "" /\ CallOnceRetry(a)
                         /\ call.attempt # call.maxRetries
                        THEN "backoff" ELSE "done",
               !.result = IF CallOnceErr(a) = "" THEN "ok"
                          ELSE IF CallOnceRetry(a) /\ call.attempt # call.maxRetries
                            THEN "" ELSE CallOnceErr(a)]

\* callOnce up to Do: a request that cannot be built ends the call; with a
\* cancelled context Do fails before anything is sent
SendRequest(reqOk) ==
    /\ call.pc = "attempt"
    /\ IF ~reqOk
         THEN call' = [call EXCEPT !.pc = "done", !.result = "build request"]
       ELSE IF call.cancelled
         THEN AfterCallOnce([status |-> 0, fault |-> "canceled"], call.sent, call.late)
       ELSE call' = [call EXCEPT !.pc = "inflight", !.sent = call.sent + 1]
    /\ UNCHANGED chatFrame

\* Do returns and callOnce finishes; once the context is cancelled Do's error is
\* the cancellation, and Do gives it or the answer if that was there first
Receive(a) ==
    /\ call.pc = "inflight"
    /\ a.fault = "canceled" <=> (call.cancelled /\ a.status = 0)
    /\ AfterCallOnce(a, call.sent, call.late \/ (call.cancelled /\ a.fault # "canceled"))
    /\ UNCHANGED chatFrame

\* the select between ctx.Done() and the backoff timer
Backoff ==
    /\ call.pc = "backoff"
    /\ call' = IF call.cancelled
                 THEN [call EXCEPT !.pc = "done", !.result = "context canceled"]
                 ELSE [call EXCEPT !.pc = "attempt", !.attempt = call.attempt + 1]
    /\ UNCHANGED chatFrame

\* the caller's context is cancelled
Cancel ==
    /\ Running /\ ~call.cancelled
    /\ call' = [call EXCEPT !.cancelled = TRUE]
    /\ UNCHANGED chatFrame

InitChat ==
    /\ maxJobRetries = DefaultJobRetries
    /\ providerRetries = DefaultProviderRetries
    /\ jobLimit = 0 /\ faultLimit = 0
    /\ InitState
    /\ EmptyStore
    /\ NoUpdates

NextChat ==
    \/ \E ad \in Adapters, r \in MaxRetriesChoices, ok \in BOOLEAN : StartChat(ad, r, ok)
    \/ \E ok \in BOOLEAN : SendRequest(ok)
    \/ \E a \in Answers : Receive(a)
    \/ Backoff
    \/ Cancel

\* the HTTP client's timeout ends every Do, the backoff timer fires
FairSpecChat ==
    /\ InitChat /\ [][NextChat]_vars
    /\ WF_vars(\E ok \in BOOLEAN : SendRequest(ok))
    /\ WF_vars(\E a \in Answers : Receive(a))
    /\ WF_vars(Backoff)

(* ------------------- the worker and the store it reads ------------------- *)

\* the preset names ingress puts into jobs: none, a preset's, one no preset carries
JobPresets == {"", "a", "zz"}

\* strings.TrimSpace(text) == ""
Blank(text) == text \in {"", " "}

\* the preset_name of job j, which every entry of the job carries
PresetOf(i) == payloads[added[i].job].preset

\* Service.ask / Service.ai from the enqueue on, with the job's preset_name:
\* Attempts is left at its zero value
AskPreset(p, chat, name) ==
    /\ nextJob <= jobLimit
    /\ XAdd(nextJob, chat, 0, 0, p)
    /\ payloads' = [j \in DOMAIN payloads \cup {nextJob} |->
                      IF j = nextJob THEN [preset |-> name, prompt |-> "hi"]
                      ELSE payloads[j]]
    /\ enqueuedJobs' = enqueuedJobs + 1
    /\ UNCHANGED <<cfgVars, backVars, rateVars, wizardVars, accessMode, dedupKeys,
                   deliveries, pending, chats, groupExists, lastDelivered, pel,
                   workerVars, processedJobs, failedJobs, faults>>

\* Store.GetDefaultPresetWithProvider: no chat row, a NULL or blank pointer give
\* ErrNotFound (no row here); otherwise the preset the pointer names
GetDefaultPresetWithProvider(chat) ==
    IF chat \notin chats \/ Blank(defaults[chat]) THEN {}
    ELSE PresetWithProvider(chat, defaults[chat])

\* Worker.resolvePreset
resolvePreset(chat, name) ==
    IF Blank(name) THEN GetDefaultPresetWithProvider(chat)
    ELSE PresetWithProvider(chat, name)

\* Worker.decryptOptional with a manager that holds the current key
decryptOptional(enc) ==
    IF ~enc.set THEN Done("")
    ELSE IF enc.form # "envelope" THEN Failed("unmarshal envelope")
    ELSE Decrypt([current |-> currentKeyID, keys |-> [k \in {currentKeyID} |-> k]], enc)

\* a config_json that is no JSON object
BadConfig == <<"{">>

\* registry.Build: the kinds it knows
SupportedKinds ==
    {"openai_compat", "openai-compatible", "openai", "custom_http", "custom-http"}

\* a worker that calls the provider whatever the row holds
ChatAtOnce(pr) == ""

\* processJob lines 184-216: the error that ends it before the provider is called,
\* "" if there is none
BeforeChat(pr) ==
    IF decryptOptional(pr.encAPIKey).err THEN "decrypt api key"
    ELSE IF decryptOptional(pr.encHeaders).err THEN "decrypt headers"
    ELSE IF /\ ~Blank(decryptOptional(pr.encHeaders).value)
            /\ ~UnmarshalsToMap(decryptOptional(pr.encHeaders).value)
           THEN "parse headers json"
    ELSE IF pr.config = BadConfig THEN "parse provider config"
    ELSE IF pr.kind \notin SupportedKinds THEN "build provider"
    ELSE ""

\* a worker that takes a job without a preset for a failed job
NotFoundIsFailure(storeOk, found) == ~storeOk \/ found = {}

\* processJob line 177: only ErrNotFound is not a failure
ResolveFailed(storeOk, found) == ~storeOk

\* Worker.processJob on the store's rows. storeOk: the store answers the query
processJob(chat, name, storeOk, statuses, sendOk) ==
    LET found == resolvePreset(chat, name) IN
    IF ResolveFailed(storeOk, found)
      THEN [err |-> TRUE, calls |-> 0, reply |-> "", why |-> "resolve"]
    ELSE IF found = {}
      THEN [err |-> FALSE, calls |-> 0, why |-> "not found",
            reply |-> IF sendOk THEN GuidanceText ELSE ""]
    ELSE LET q == CHOOSE q \in found : TRUE
             pr == CHOOSE pr \in providers : pr.id = q.pid
             r == ProcessResult("found", statuses, sendOk)
         IN IF BeforeChat(pr) # ""
              THEN [err |-> TRUE, calls |-> 0, reply |-> "", why |-> BeforeChat(pr)]
              ELSE [err |-> r.err, calls |-> r.calls, reply |-> r.reply,
                    why |-> IF ~r.err THEN ""
                            ELSE IF ChatFrom(statuses, 0).ok THEN "send telegram response"
                            ELSE "provider chat"]

\* consumeLoop lines 142-166 with the store behind processJob
ProcessStored(w, storeOk, statuses, sendOk) ==
    /\ pc[w] = "process"
    /\ Outcome(storeOk /\ sendOk)
    /\ LET r == processJob(added[cur[w]].chat, PresetOf(cur[w]), storeOk, statuses, sendOk)
       IN /\ Consume(w, r)
          /\ outcome' = [i \in DOMAIN outcome \cup {cur[w]} |->
                            IF i = cur[w] THEN r.why ELSE outcome[i]]

\* an envelope the wizard wrote under a key
Sealed(key, value) ==
    [set |-> TRUE, form |-> "envelope", key_id |-> key, nonce |-> <<"base64", 1>>,
     ciphertext |-> <<"base64", <<"seal", key, 1, value>>>>]

\* provider rows the worker may find: one the wizard wrote under the current key,
\* one written under a key the manager no longer holds, and rows whose headers,
\* config_json or kind the wizard would not have written
GoodRow ==
    [AdminRow(AdminChat, "p") EXCEPT !.encAPIKey = Sealed("k1", "sk-1"),
                                     !.encHeaders = Sealed("k1", "{\"a\":\"b\"}")]
WorkerRows ==
    {GoodRow,
     [GoodRow EXCEPT !.encAPIKey = Sealed("k2", "sk-1")],
     [GoodRow EXCEPT !.encHeaders = Sealed("k2", "{\"a\":\"b\"}")],
     [GoodRow EXCEPT !.encHeaders = Sealed("k1", "custom")],
     [GoodRow EXCEPT !.config = BadConfig],
     [GoodRow EXCEPT !.kind = "anthropic"]}

\* the store the worker reads: the chat row and its pointer, the preset "a", its
\* provider row (or none, after /llm_del)
InitResolve ==
    /\ maxJobRetries \in JobRetryChoices
    /\ providerRetries \in ProviderRetryChoices
    /\ jobLimit = MaxJobsFaulty
    /\ faultLimit \in {0, MaxFaults}
    /\ InitState
    /\ accessMode = "public" /\ admins = {} /\ currentKeyID = "k1"
    /\ handlerLimit = 0 /\ cmdLimit = 0
    /\ lastId = 1
    /\ \/ chats = {} /\ defaults = [c \in TargetChats |-> ""]
       \/ /\ chats = {AdminChat}
          /\ \E name \in JobPresets :
                defaults = [c \in TargetChats |-> IF c = AdminChat THEN name ELSE ""]
    /\ \/ presets = {} /\ providers = {WithId(GoodRow, 1)}
       \/ /\ presets = {[chat |-> AdminChat, name |-> "a", pid |-> 1]}
          /\ \/ providers = {}
             \/ \E row \in WorkerRows : providers = {WithId(row, 1)}

NextResolve ==
    \/ \E p \in Producers, name \in JobPresets : AskPreset(p, AdminChat, name)
    \/ Start("w1", TRUE)
    \/ Read("w1")
    \/ \E storeOk \in BOOLEAN, statuses \in StatusSeqs, sendOk \in BOOLEAN :
          ProcessStored("w1", storeOk, statuses, sendOk)
    \/ \E ok \in BOOLEAN : Reenqueue("w1", ok)
    \/ \E ok \in BOOLEAN : SendError("w1", ok)
    \/ \E ok \in BOOLEAN : XAck("w1", ok)
    \/ \E ok \in BOOLEAN : XDel("w1", ok)

SpecResolve == InitResolve /\ [][NextResolve]_vars

(* ------------------------------- shutdown ------------------------------ *)

\* calls one consumer can still make after the root context is cancelled
MaxCancelledCalls == 3

\* what shutdown leaves alone
shutdownFrame ==
    UNCHANGED <<cfgVars, queueVars, metricVars, faults, rateVars, frontVars, adminVars,
                calc, call, outcome, calls, sent, finished, readLog>>

\* main: the signal (or a runtime error followed by cancel()) ends the root context
Shutdown ==
    /\ ~ctxDone
    /\ ctxDone' = TRUE
    /\ UNCHANGED <<pc, cur, todo>>
    /\ shutdownFrame

\* consumeLoop lines 124-132: with the context cancelled the loop returns at its
\* top, or when the read comes back with the context's error
Exit(w) ==
    /\ ctxDone /\ pc[w] = "read"
    /\ pc' = [pc EXCEPT ![w] = "exited"]
    /\ UNCHANGED <<ctxDone, cur, todo>>
    /\ shutdownFrame

\* main returns after the 10 s shutdown of the HTTP server without waiting for
\* the goroutine that runs Worker.Start: the process ends under its consumers
MainReturns ==
    /\ ctxDone
    /\ \E w \in Workers : pc[w] \notin {"stopped", "exited"}
    /\ pc' = [w \in Workers |-> IF pc[w] = "stopped" THEN "stopped" ELSE "exited"]
    /\ cur' = [w \in Workers |-> 0]
    /\ todo' = [w \in Workers |-> <<>>]
    /\ UNCHANGED ctxDone
    /\ shutdownFrame

\* one worker process with one consumer; nothing fails until the context is
\* cancelled, and a Redis call made with the cancelled context fails
InitShutdown ==
    /\ maxJobRetries \in JobRetryChoices
    /\ providerRetries \in ProviderRetryChoices
    /\ jobLimit = MaxJobs /\ faultLimit = MaxCancelledCalls
    /\ InitState
    /\ EmptyStore
    /\ NoUpdates

NextShutdown ==
    \/ \E p \in Producers, chat \in Chats : ~ctxDone /\ Ask(p, chat, TRUE)
    \/ ~ctxDone /\ Start("w1", TRUE)
    \/ ~ctxDone /\ Read("w1")
    \/ Exit("w1")
    \/ \E resolve \in {"found", "notfound", "error"}, statuses \in StatusSeqs,
          sendOk \in BOOLEAN :
            /\ ctxDone \/ (resolve # "error" /\ sendOk)
            /\ ProcessJob("w1", resolve, statuses, sendOk)
    \/ Reenqueue("w1", ~ctxDone)
    \/ SendError("w1", ~ctxDone)
    \/ XAck("w1", ~ctxDone)
    \/ XDel("w1", ~ctxDone)
    \/ Shutdown
    \/ MainReturns

SpecShutdown == InitShutdown /\ [][NextShutdown]_vars

(* --------------------- the openai_compat endpoint URL -------------------- *)

\* base URLs are sequences of pieces: blanks, scheme and host, path pieces, a
\* query. "/%zz" is a path url.Parse rejects; "HTTPS://h" a scheme it lowers
HostPieces == {"https://h", "HTTPS://h"}
PathPieces == {"/v1", "/", "/chat/completions", "/responses", "/%zz"}
QueryPieces == {"?k=1"}
Paths == {<<>>} \cup {<<a>> : a \in PathPieces}
            \cup {<<a, b>> : a \in {"/v1", "/", "/responses"}, b \in PathPieces}
BaseURLs ==
    {<<>>, <<" ">>}
    \cup {pad \o <<h>> \o path \o query \o pad :
            pad \in {<<>>, <<" ">>}, h \in HostPieces, path \in Paths,
            query \in {<<>>} \cup {<<q>> : q \in QueryPieces}}

\* config.endpoint as the provider row gives it, "" if the config has none
Endpoints == {"", "chat_completions", "responses", "Responses", "/v1/responses"}

HasSuffix(s, piece) == s # <<>> /\ s[Len(s)] = piece
TrimSuffix(s, piece) == IF HasSuffix(s, piece) THEN SubSeq(s, 1, Len(s) - 1) ELSE s
InPath(piece) == piece \in PathPieces
InQuery(piece) == piece \in QueryPieces

\* url.Parse and URL.String
Parse(s) ==
    IF \E k \in DOMAIN s : s[k] = "/%zz" THEN Failed("parse base url")
    ELSE Done([host |-> IF s[1] = "HTTPS://h" THEN "https://h" ELSE s[1],
               path |-> SelectSeq(s, InPath), query |-> SelectSeq(s, InQuery)])
String(u) == <<u.host>> \o u.path \o u.query

\* isResponsesEndpoint with a comparison of the text as it is
IsLiteralResponses(v) == v = "responses"

\* isResponsesEndpoint (none of these texts has blanks around it)
isResponsesEndpoint(v) == ToLower(v) \in {"responses", "/v1/responses"}

\* registry.Build and openai_compat.New: the endpoint mode of the client
EndpointMode(endpoint) == IF endpoint # "" THEN endpoint ELSE "chat_completions"

\* Client.buildEndpointURL
buildEndpointURL(baseURL, endpoint) ==
    LET base == TrimSpace(baseURL) IN
    IF base = <<>> THEN Failed("base url is empty")
    ELSE IF HasSuffix(base, "/chat/completions") \/ HasSuffix(base, "/responses")
      THEN Done(base)
    ELSE IF Parse(base).err THEN Parse(base)
    ELSE LET u == Parse(base).value
             path == TrimSuffix(u.path, "/")
         IN Done(String([u EXCEPT !.path =
                  path \o (IF isResponsesEndpoint(EndpointMode(endpoint))
                             THEN <<"/responses">> ELSE <<"/chat/completions">>)]))

\* a client is built from a row and derives its URL
EndpointCall(baseURL, endpoint) ==
    /\ calc.op = "none"
    /\ calc' = [op |-> "endpoint", base |-> baseURL, endpoint |-> endpoint,
                res |-> buildEndpointURL(baseURL, endpoint)]
    /\ UNCHANGED cryptoFrame

NextEndpoint ==
    \/ \E b \in BaseURLs, e \in Endpoints : EndpointCall(b, e)
    \/ Forget

SpecEndpoint == InitCrypto /\ [][NextEndpoint]_vars

(* ======================= properties of the queue ======================= *)

Delivered == Range(readLog)
Children(i) == {k \in Ids : added[k].parent = i}
Chain(j) == {i \in Ids : added[i].job = j}
Held(i) == \E w \in Workers : cur[w] = i

\* delivered-or-deliverable and not yet acked
Outstanding(i) ==
    /\ i \in stream
    /\ i \in pel \/ i > lastDelivered \/ ~groupExists

\* C1: on a failure with attempts < max_retries the worker enqueues the new entry
\* first and acks the old one afterwards, so that at every point of the retry
\* path, a crash included, a job whose processing has not ended has an entry in
\* the stream: an entry leaves the pending list only once its successor is in the
\* stream or its job has ended.
C1_EnqueueThenAck ==
    /\ \A j \in 1 .. nextJob - 1 :
          j \notin finished => \E i \in stream : added[i].job = j
    /\ \A i \in Delivered :
          i \notin pel => Children(i) # {} \/ added[i].job \in finished
    /\ \A w \in Workers :
          (pc[w] = "exec" /\ "enqueue" \in Range(todo[w]))
             => cur[w] \in stream /\ cur[w] \in pel

\* C1 witness: the worker crashed between the re-enqueue and the ack: the old
\* entry is still pending, nobody holds it, and its successor is in the stream
C1_CrashBetween ==
    /\ faults = 1
    /\ \A w \in Workers : pc[w] = "stopped"
    /\ \E i \in pel \cap stream : \E k \in Children(i) : k \in stream

\* C2 as claimed: the queue never holds two outstanding entries of one job
C2_AtMostOneOutstanding ==
    \A i \in stream, k \in stream :
        (i # k /\ Outstanding(i) /\ Outstanding(k)) => added[i].job # added[k].job

\* C2 as amended: two outstanding entries of one job never carry the same
\* attempts, and the successor of a retried entry is enqueued while the old entry
\* is still pending (the enqueue precedes the ack), so both are outstanding until
\* the ack.
C2_OnePerAttempt ==
    /\ \A i \in stream, k \in stream :
          (i # k /\ Outstanding(i) /\ Outstanding(k) /\ added[i].job = added[k].job)
             => added[i].attempts # added[k].attempts
    /\ \A w \in Workers :
          (pc[w] = "exec" /\ todo[w] = <<"xack", "xdel">> /\ Children(cur[w]) # {})
             => Outstanding(cur[w])

\* C2 witness: old and new entry of a retried job are outstanding together
C2_TwoOutstanding ==
    \E i \in stream : \E k \in Children(i) :
        Outstanding(i) /\ Outstanding(k) /\ added[k].attempts = added[i].attempts + 1

\* C3: an entry from ingress carries attempts 0, a re-enqueued entry carries one
\* more than the entry it replaces (and the same job), and no entry ever carries
\* more than the worker's max job retries.
C3_Attempts ==
    \A i \in Ids :
        /\ added[i].parent = 0 => added[i].attempts = 0
        /\ added[i].parent # 0 =>
              /\ added[i].attempts = added[added[i].parent].attempts + 1
              /\ added[i].job = added[added[i].parent].job
        /\ added[i].attempts <= maxJobRetries

\* C3 witness: a job was re-enqueued up to the maximum
C3_RetriedToMax ==
    \E i \in stream : added[i].parent # 0 /\ added[i].attempts = maxJobRetries

\* the terminal error reply for the entry in w's hands
ErrorReply(w) ==
    [job |-> added[cur[w]].job, chat |-> added[cur[w]].chat,
     text |-> ErrorText, entry |-> cur[w]]

\* C4: a failure at attempts = max_retries makes the worker send the error text
\* to the job's chat, then ack, whether or not the send succeeded; no entry is
\* ever enqueued to replace an entry at attempts = max_retries.
C4_TerminalFailure ==
    /\ [](/\ \A i \in Ids : added[i].attempts = maxJobRetries => Children(i) = {}
          /\ \A m \in sent : m.text = ErrorText =>
                /\ added[m.entry].attempts = maxJobRetries
                /\ m.chat = added[m.entry].chat /\ m.job = added[m.entry].job)
    /\ [][\A w \in Workers :
            /\ (pc[w] = "process" /\ pc'[w] = "exec" /\ failedJobs' = failedJobs + 1
                  /\ added[cur[w]].attempts = maxJobRetries)
                 => todo'[w] = <<"senderror", "xack", "xdel">>
            /\ (pc[w] = "exec" /\ Head(todo[w]) = "senderror" /\ pc'[w] # "stopped"
                  /\ todo'[w] # todo[w])
                 => /\ todo'[w] = <<"xack", "xdel">>
                    /\ cur'[w] = cur[w]
                    /\ added' = added
                    /\ sent' \in {sent, sent \cup {ErrorReply(w)}}]_vars

\* C4 witness: the error reply could not be sent and the entry was acked all the same
C4_AckedWithoutReply ==
    \E w \in Workers :
        /\ pc[w] = "exec" /\ todo[w] = <<"xdel">>
        /\ added[cur[w]].attempts = maxJobRetries
        /\ cur[w] \notin pel
        /\ processedJobs = 0 /\ failedJobs > 0
        /\ \A m \in sent : m.entry # cur[w]

\* the chain of job j has ended and its last entry is acked and deleted
ChainDone(j) == j \in finished /\ Chain(j) \cap stream = {}
ErrorReplies(j) == {m \in sent : m.job = j /\ m.text = ErrorText}

\* C5 as claimed (one job, adapter max_retries 2, job max_retries 3, provider
\* always 503): 3 HTTP attempts per processing, two re-enqueues, the terminal
\* reply on the third processing, queue_failed_total = 3.
C5_AsClaimed ==
    (nextJob = 2 /\ ChainDone(1)) =>
        /\ Cardinality(Chain(1)) = 3
        /\ \A m \in ErrorReplies(1) : added[m.entry].attempts = 2
        /\ failedJobs = 3

\* C5 as amended: 3 HTTP attempts per processing; the job is re-enqueued three
\* times; the fourth processing (attempts = 3) posts the terminal reply, once,
\* and acks; queue_failed_total ends at 4 per job.
C5_RetryExhaust ==
    /\ \A w \in Workers : pc[w] = "exec" => calls[w] = 3
    /\ processedJobs = 0
    /\ \A j \in 1 .. nextJob - 1 : ChainDone(j) =>
          /\ Cardinality(Chain(j)) = 4
          /\ Cardinality(ErrorReplies(j)) = 1
          /\ \A m \in ErrorReplies(j) : added[m.entry].attempts = 3
    /\ (nextJob > 1 /\ \A j \in 1 .. nextJob - 1 : ChainDone(j))
          => failedJobs = 4 * (nextJob - 1)

\* C5 witness: the scenario has run to its end
C5_ScenarioDone ==
    /\ nextJob = 2 /\ ChainDone(1)
    /\ \A w \in Workers : pc[w] = "read"
    /\ failedJobs = 4 /\ pel = {}

\* C6: under fair scheduling and without failures every job ingress enqueued
\* is eventually delivered and its processing chain eventually ends.
C6_EveryJobEnds ==
    \A j \in 1 .. MaxJobs : (j < nextJob) ~> (j \in finished)

\* C7: an entry is returned by Read at most once: not after it was acked, and
\* not while it is delivered and unacked (it stays in the pending list, and a
\* read of new entries does not return it).
C7_NoRedelivery ==
    /\ \A k \in DOMAIN readLog, l \in DOMAIN readLog :
          k # l => readLog[k] # readLog[l]
    /\ NewEntries \cap Delivered = {}
    /\ \A w \in Workers :
          (pc[w] = "process" \/ (pc[w] = "exec" /\ "xack" \in Range(todo[w])))
             => cur[w] \in pel

\* C7 witness: an entry was read and never acked, its reader is gone, and the
\* reads that followed returned a later entry, which was acked and deleted
C7_PendingNotReread ==
    \E i \in pel : \E k \in Delivered :
        /\ ~Held(i)
        /\ k > i /\ k \notin stream /\ k \notin pel

\* C8: of two jobs one producer enqueued one after the other, the later is never
\* delivered while the earlier is still undelivered.
C8_FifoPerProducer ==
    \A i \in Ids, k \in Ids :
        (i < k /\ added[i].parent = 0 /\ added[k].parent = 0
           /\ added[i].by = added[k].by /\ k \in Delivered)
          => i \in Delivered

(* ==================== properties of the rate limiter =================== *)

SameBucket(a, b) ==
    a.chat = b.chat /\ a.user = b.user /\ WindowStart(a.now) = WindowStart(b.now)

\* the calls before the k-th that counted in the k-th call's bucket
EarlierInBucket(k) ==
    {l \in 1 .. k - 1 : ~results[l].err /\ SameBucket(results[l], results[k])}

\* C9: with calls that reach Redis at once (the script runs at `now`), the k-th
\* Allow call of a (chat, user, hour bucket) returns used = k, allowed = (k <= N)
\* and reset_at = the top of the next hour; other chats, users and buckets do
\* not count.
C9_KthCall ==
    \A k \in DOMAIN results :
        ((\A l \in 1 .. k : results[l].at = results[l].now) /\ ~results[k].err) =>
            LET kth == Cardinality(EarlierInBucket(k)) + 1 IN
            /\ results[k].used = kth
            /\ results[k].allowed = (kth <= limit)
            /\ results[k].resetAt = WindowEnd(results[k].now)

\* C10: Allow calls on one (chat, user, hour bucket) that overlap in time observe
\* different used values, each is allowed exactly when its used value is within
\* the limit, and a stored counter always has an expiry, which no later call moves.
C10_AtomicCount ==
    /\ \A k \in DOMAIN results, l \in DOMAIN results :
          (k < l /\ ~results[k].err /\ ~results[l].err
             /\ SameBucket(results[k], results[l])
             /\ results[l].now <= results[k].at)
            => results[k].used # results[l].used
    /\ \A k \in DOMAIN results :
          ~results[k].err => results[k].allowed = (results[k].used <= limit)
    /\ \A key \in DOMAIN rateKeys : rateKeys[key].exp > 0

(* ======================== properties of ingress ======================== *)

Sender(d) == Updates[deliveries[d].update]
Untouched(d) ==
    /\ ~deliveries[d].handled /\ deliveries[d].reply = "" /\ deliveries[d].rate = "none"
    /\ ~deliveries[d].upsert /\ ~deliveries[d].enqueue /\ deliveries[d].entry = 0
    /\ \A r \in Replicas : pending[r] # <<d>>

\* C11: when the rate-limit store fails for an /ask or /ai request with a
\* non-empty prompt, the handler goes on as for an allowed call: it upserts the
\* chat, enqueues the job and sends no rate-limit denial; an accepted request
\* has its job in the stream with attempts 0.
C11_RateFailOpen ==
    \A d \in DOMAIN deliveries :
        (deliveries[d].handled /\ deliveries[d].rateErr) =>
            /\ deliveries[d].upsert /\ deliveries[d].enqueue
            /\ deliveries[d].reply \in {AcceptedText, QueueDownText}
            /\ deliveries[d].reply = AcceptedText =>
                  /\ deliveries[d].entry \in Ids
                  /\ added[deliveries[d].entry].attempts = 0
                  /\ added[deliveries[d].entry].chat = Sender(d).chat

\* C11 witness: the limiter failed and the request was enqueued and accepted
C11_FailedOpenAccepted ==
    \E d \in DOMAIN deliveries :
        /\ deliveries[d].rateErr /\ deliveries[d].reply = AcceptedText
        /\ deliveries[d].entry \in stream /\ Sender(d).chat \in chats

\* the first white-space-delimited token of a text
FirstToken(str) ==
    LET s == TrimSpace(str)
        idx == IndexAnySpace(s)
    IN IF idx = 0 THEN s ELSE SubSeq(s, 1, idx - 1)

\* C12: /ask and /ai reject an empty prompt, then rate limit, then upsert the
\* chat, enqueue and reply: (a) an empty prompt consumes no slot and enqueues
\* nothing, (b) a denied request enqueues nothing and is answered with the
\* rate-limit message and the reset time, (c) an allowed request adds one entry
\* with attempts 0, preset_name empty for /ask and the first token for /ai.
C12_CommandOrder ==
    \A d \in DOMAIN deliveries : deliveries[d].handled =>
        LET rec == deliveries[d]
            text == Sender(d).text
        IN /\ rec.reply \in {UsageAskText, UsageAiText} =>
                 rec.rate = "none" /\ rec.entry = 0 /\ ~rec.upsert
           /\ rec.rate = "denied" =>
                 /\ rec.entry = 0 /\ ~rec.upsert /\ rec.reply = RateLimitText
                 /\ rec.resetAt > rec.at /\ rec.resetAt % HourTicks = 0
           /\ rec.entry # 0 =>
                 /\ rec.entry \in Ids /\ added[rec.entry].attempts = 0
                 /\ \A e \in DOMAIN deliveries : (e # d) => deliveries[e].entry # rec.entry
                 /\ payloads[rec.entry].preset =
                       IF Head(text) = "/ask" THEN <<>>
                       ELSE FirstToken(SubSeq(text, 2, Len(text)))

\* C13: among the deliveries of one update within the dedup TTL, MarkFirst
\* answers true for exactly one, the first; the handlers run for that one, and
\* every other one is dropped without any effect.
C13_DedupOnce ==
    \A l \in DOMAIN deliveries :
        /\ deliveries[l].dedup = "first" => deliveries[l].dispatched
        /\ deliveries[l].dedup = "seen" =>
              /\ Untouched(l) /\ ~deliveries[l].dispatched
              /\ \E k \in 1 .. l - 1 :
                    /\ deliveries[k].update = deliveries[l].update
                    /\ deliveries[k].dedup = "first"
                    /\ deliveries[l].at < deliveries[k].at + DedupTtlTicks
        /\ \A k \in 1 .. l - 1 :
              (/\ deliveries[k].update = deliveries[l].update
               /\ deliveries[k].dedup = "first"
               /\ deliveries[l].dedup # "error"
               /\ deliveries[l].at < deliveries[k].at + DedupTtlTicks)
                 => deliveries[l].dedup = "seen"

\* C13 witness: an update was delivered twice within the TTL; the first delivery
\* enqueued a job, the second was dropped
C13_SecondDropped ==
    \E k \in DOMAIN deliveries, l \in DOMAIN deliveries :
        /\ k < l /\ deliveries[k].update = deliveries[l].update
        /\ deliveries[k].dedup = "first" /\ deliveries[k].entry # 0
        /\ deliveries[l].dedup = "seen"

\* C14: an update whose dedup check failed is dispatched to the handlers all the
\* same.
C14_DedupFailOpen ==
    \A d \in DOMAIN deliveries :
        deliveries[d].dedup = "error" =>
            /\ deliveries[d].dispatched
            /\ deliveries[d].handled \/ \E r \in Replicas : pending[r] = <<d>>

\* C14 witness: the dedup store failed and the handler ran and enqueued the job
C14_HandledDespiteError ==
    \E d \in DOMAIN deliveries :
        deliveries[d].dedup = "error" /\ deliveries[d].handled /\ deliveries[d].entry # 0

\* C15: in private mode an update of a user other than the admin is dropped
\* before any handler runs.
C15_PrivateModeDrops ==
    accessMode = "private" =>
        \A d \in DOMAIN deliveries :
            Sender(d).user # AdminUserID => ~deliveries[d].dispatched /\ Untouched(d)



(* ======================= properties of the wizard ======================= *)

\* the message the step handles is a text of user u
TextOf(u) == lastMsg'.op = "text" /\ lastMsg'.user = u

\* an input the step of the wizard does not accept
InvalidAt(step, text) ==
    \/ step = "kind" /\ normalizeProviderKind(text) = ""
    \/ step = "name" /\ ~NameMatches(text)
    \/ step = "endpoint" /\ ToLower(text) \notin {"chat_completions", "responses"}
    \/ step = "headers" /\ text # "-" /\ ~IsJsonObject(text)

\* C16: an invalid input at a step (unknown type at kind, a name not matching the
\* pattern, an unknown endpoint mode, headers that are neither "-" nor a JSON
\* object), handled without a failure of the session store, leaves the stored
\* session as it was and only sends the prompt again
C16_InvalidInputKeepsSession ==
    [][\A u \in WizardUsers :
         TextOf(u) /\ faults' = faults /\ InvalidAt(sessions[u].step, lastMsg'.text)
           => sessions'[u] = sessions[u] /\ lastMsg'.reply = "again"]_vars


\* the steps a text may move a session along
NextSteps(state) ==
    IF state.step = "kind" THEN {"name"}
    ELSE IF state.step = "name" THEN {"base_url"}
    ELSE IF state.step = "base_url"
      THEN (IF state.kind = "openai_compat" THEN {"endpoint"} ELSE {"headers"})
    ELSE IF state.step \in {"endpoint", "headers"} THEN {"api_key"}
    ELSE IF state.step = "api_key" THEN {"none"}
    ELSE {}

\* what a session at a step has collected
StepShape(state) ==
    /\ state.step \in {"none", "kind", "name", "base_url", "endpoint", "headers", "api_key"}
    /\ state.step = "endpoint" => state.kind = "openai_compat"
    /\ state.step = "headers" => state.kind = "custom_http"
    /\ state.step = "api_key" =>
         /\ state.kind \in {"openai_compat", "custom_http"}
         /\ NameMatches(state.name)
         /\ state.baseURL # ""

\* C17: a session starts at step kind; a text moves its step only one place along
\* kind, name, base_url, endpoint (openai_compat) or headers (custom_http), api_key,
\* cleared; /cancel and the TTL only clear it; endpoint is reached only with kind
\* openai_compat, headers only with custom_http, and at api_key the kind, name and
\* base URL are set and the name matches the pattern
C17_StepOrder ==
    /\ [](\A u \in WizardUsers : StepShape(sessions[u]))
    /\ [][\A u \in WizardUsers :
            sessions'[u].step # sessions[u].step =>
              \/ lastMsg'.op = "start" /\ sessions'[u].step = "kind"
              \/ lastMsg'.op \in {"cancel", "expire"} /\ sessions'[u].step = "none"
              \/ TextOf(u) /\ sessions'[u].step \in NextSteps(sessions[u])]_vars

\* a custom_http session has reached api_key with headers collected
C17_AtApiKeyViaHeaders ==
    \E u \in WizardUsers :
        /\ sessions[u].step = "api_key"
        /\ sessions[u].kind = "custom_http"
        /\ sessions[u].headers # ""


\* the rows of a chat under a name
RowsOf(table, chat, name) == {p \in table : p.chat = chat /\ p.name = name}

\* the config_json the wizard's answers call for
ConfigFor(state) ==
    IF state.kind = "openai_compat" THEN <<"endpoint", state.endpoint>> ELSE <<>>

IsEnvelope(enc) ==
    /\ enc.set
    /\ enc.form = "envelope"
    /\ enc.key_id \in KeyIds
    /\ \E n \in Nonces :
          /\ enc.nonce = <<"base64", n>>
          /\ \E value \in WizardTexts :
                enc.ciphertext = <<"base64", <<"seal", enc.key_id, n, value>>>>

\* C19: every provider row's enc_api_key and enc_headers_json is unset or an
\* envelope {key_id, nonce, ciphertext}; a row the wizard writes carries the key id
\* that is current at the write, its enc_api_key is unset exactly when the api_key
\* text was "-", its enc_headers_json exactly when the session holds no headers,
\* and the session holds no headers after the headers step exactly when the text
\* there was "-"
C19_SecretsSealed ==
    /\ [](\A p \in providers :
            /\ p.encAPIKey = Unset \/ IsEnvelope(p.encAPIKey)
            /\ p.encHeaders = Unset \/ IsEnvelope(p.encHeaders))
    /\ [][\A u \in WizardUsers :
            /\ TextOf(u) /\ sessions[u].step = "headers" /\ sessions'[u].step = "api_key"
                 => (sessions'[u].headers = "" <=> lastMsg'.text = "-")
            /\ TextOf(u) /\ sessions[u].step = "api_key" =>
                 \A r \in providers' \ providers :
                    /\ r.encAPIKey = Unset <=> lastMsg'.text = "-"
                    /\ r.encAPIKey # Unset => r.encAPIKey.key_id = currentKeyID
                    /\ r.encHeaders = Unset <=> sessions[u].headers = ""
                    /\ r.encHeaders # Unset => r.encHeaders.key_id = currentKeyID]_vars

\* after a key rotation the wizard has written a row with both secrets sealed
\* under the new key
C19_SealedUnderNewKey ==
    \E p \in providers :
        /\ IsEnvelope(p.encAPIKey) /\ p.encAPIKey.key_id = "k2"
        /\ IsEnvelope(p.encHeaders) /\ p.encHeaders.key_id = "k2"


\* C20: a session with target chat C comes to user U only by /start llmadd_C in a
\* private chat at a moment when isAdmin(C, U) answers true, and starts at step
\* kind; no other step gives a user a session or changes a session's target chat;
\* every row the wizard writes goes to the target chat of the writer's session,
\* for which the writer's admin check succeeded
C20_AdminGate ==
    /\ [](\A u \in WizardUsers :
            sessions[u] # NoSession => <<sessions[u].target, u>> \in checked)
    /\ [][\A u \in WizardUsers :
            /\ lastMsg'.op = "start" /\ sessions'[u] # sessions[u] =>
                 /\ lastMsg'.user = u /\ lastMsg'.chatType = "private"
                 /\ sessions'[u] = Stored(NewSession(sessions'[u].target))
                 /\ IsAdminAnswer(sessions'[u].target, u)
            /\ lastMsg'.op # "start" /\ sessions'[u] # NoSession =>
                 /\ sessions[u] # NoSession
                 /\ sessions'[u].target = sessions[u].target
            /\ \A r \in providers' \ providers :
                 TextOf(u) => /\ r.chat = sessions[u].target
                              /\ <<r.chat, u>> \in checked]_vars

\* a row written through the wizard stands in a chat whose admin the writer no
\* longer is
C20_WrittenThenRevoked ==
    \E r \in providers :
        /\ r # EarlierRow
        /\ r.chat = 333
        /\ <<333, AdminUserID>> \in checked
        /\ <<333, AdminUserID>> \notin admins


(* ==================== properties of the admin commands ==================== *)

\* C22: isAdmin answers with the user's platform status, but for a positive that
\* has gone stale; in particular it never answers "not admin" for a user who is
\* administrator or creator of the chat at the time of the call
C22_CacheCoherent ==
    [][lastMsg'.op = "check" /\ ~lastMsg'.err /\ ~lastMsg'.answer
         => <<lastMsg'.chat, lastMsg'.user>> \notin admins]_vars

\* the rows the admin commands manage
StoreRows == <<providers, presets, defaults, auditLog>>

\* C21: a handler of an admin command goes on to its store calls only in a
\* non-private chat and after isAdmin answered true without error; in a private
\* chat, for a user who is not admin and on an error of the check it sends its
\* denial and returns, and providers, presets, default pointers and the audit
\* log are as before; these rows are changed only by handlers that went on
C21_AdminGating ==
    /\ [][lastMsg'.op = "admin" /\ lastMsg'.step = "begin"
            => /\ UNCHANGED StoreRows
               /\ handlers'[lastMsg'.slot] # Idle
                    => ~lastMsg'.private /\ ~lastMsg'.check.err /\ lastMsg'.check.answer
               /\ lastMsg'.private
                    => /\ handlers'[lastMsg'.slot] = Idle
                       /\ lastMsg'.reply =
                            IF lastMsg'.h.cmd = "llm_add"
                              THEN "Run /llm_add in your group/supergroup first."
                              ELSE "Run this command in group/supergroup."
               /\ ~lastMsg'.private /\ lastMsg'.check.err
                    => /\ handlers'[lastMsg'.slot] = Idle
                       /\ lastMsg'.reply = "Failed to verify admin rights."
               /\ ~lastMsg'.private /\ ~lastMsg'.check.err /\ ~lastMsg'.check.answer
                    => /\ handlers'[lastMsg'.slot] = Idle
                       /\ lastMsg'.reply = "Only chat admins can run this command."]_vars
    /\ [][StoreRows' # StoreRows /\ lastMsg'.op = "admin"
            => lastMsg'.step # "begin" /\ handlers[lastMsg'.slot] # Idle]_vars

\* a command is denied on an error of the admin check while the chat has presets
C21_DeniedOnError ==
    /\ lastMsg.op = "admin" /\ lastMsg.reply = "Failed to verify admin rights."
    /\ presets # {} /\ auditLog # <<>>

\* C23 (I1): every stored preset's provider_instance_id names a provider row that
\* exists and belongs to the preset's chat
C23_PresetHasProvider ==
    \A q \in presets : \E p \in providers : p.id = q.pid /\ p.chat = q.chat

\* C24 (I2): whenever no handler is running, and no call of the store has failed,
\* a chat's default_preset_name is unset or names a preset the chat has
C24_DefaultNamesPreset ==
    Busy = {} /\ faults = 0
      => \A c \in TargetChats : defaults[c] = "" \/ PresetsNamed(c, defaults[c]) # {}

\* the step with which a handler of command cmd returns with reply
Returns(cmd, reply) ==
    lastMsg'.op = "admin" /\ lastMsg'.h.cmd = cmd /\ lastMsg'.reply = reply

PointerSet == /\ defaults'[lastMsg'.h.chat] = lastMsg'.h.name
              /\ lastMsg'.h.def0 # lastMsg'.h.name

\* C26 as claimed: when no store call has failed, "Preset saved." comes with the
\* pointer set to the added preset exactly if the chat had no preset and no
\* default; a pointer that was set is unchanged, and the pointer is not set to the
\* added preset when the chat had other presets
C26_FirstPresetIsDefault ==
    [][Returns("ai_preset_add", "Preset saved.") /\ faults' = 0
         => /\ PointerSet <=> (lastMsg'.h.names0 = {} /\ lastMsg'.h.def0 = "")
            /\ lastMsg'.h.def0 # "" => defaults'[lastMsg'.h.chat] = lastMsg'.h.def0
            /\ lastMsg'.h.names0 \ {lastMsg'.h.name} # {} => ~PointerSet]_vars

\* C26 amended: "Preset saved." comes with the pointer set to the added preset
\* exactly if the chat had no default, whatever presets it had, provided the read
\* of the pointer and the set succeed (the pointer stays unset if one fails); a
\* pointer that was set is unchanged
C26_NoDefaultThenDefault ==
    [][Returns("ai_preset_add", "Preset saved.")
         => /\ lastMsg'.h.name \in {q.name : q \in presets'}
            /\ lastMsg'.h.def0 # "" => defaults'[lastMsg'.h.chat] = lastMsg'.h.def0
            /\ lastMsg'.h.def0 = ""
                 => /\ defaults'[lastMsg'.h.chat] \in {"", lastMsg'.h.name}
                    /\ faults' = faults
                         => defaults'[lastMsg'.h.chat] = lastMsg'.h.name]_vars

\* a preset was added to a chat that had another preset and no default, and is
\* the default now
C26_DefaultBesideOthers ==
    /\ lastMsg.op = "admin" /\ lastMsg.h.cmd = "ai_preset_add"
    /\ lastMsg.reply = "Preset saved." /\ lastMsg.h.def0 = ""
    /\ lastMsg.h.names0 \ {lastMsg.h.name} # {}
    /\ defaults[AdminChat] = lastMsg.h.name /\ faults = 0

(* ======================== properties of the store ======================== *)

\* the columns a caller hands in and reads back
Columns(p) ==
    [chat |-> p.chat, name |-> p.name, kind |-> p.kind, baseURL |-> p.baseURL,
     encAPIKey |-> p.encAPIKey, encHeaders |-> p.encHeaders, config |-> p.config]

EnvelopeOf(raw) == FromJSON(raw).value
\* manager m holds, under the key id writer w stamps, the key w seals with
HoldsKeyOf(m, w) ==
    w.current \in DOMAIN m.keys /\ m.keys[w.current] = w.keys[w.current]

\* C28: a manager reads back the plaintext it sealed, and a sealed string carries
\* its writer's current key id; every manager that holds the writer's key under
\* that id reads the plaintext back, whatever its own current key, and a manager
\* that does not know the string's key id fails
C28_EnvelopeRoundTrip ==
    /\ calc.op \in {"marshal", "reencrypt"} /\ ~calc.res.err
         => EnvelopeOf(calc.res.value).key_id = calc.m.current
    /\ calc.op = "unmarshal" /\ calc.from = "marshal" /\ calc.m = calc.by
         => calc.res = Done(calc.text)
    /\ calc.op = "unmarshal" /\ calc.from \in {"marshal", "reencrypt"}
         /\ HoldsKeyOf(calc.m, calc.by)
         => calc.res = Done(calc.text)
    /\ calc.op = "unmarshal" /\ ~FromJSON(calc.raw).err
         /\ EnvelopeOf(calc.raw).key_id \notin DOMAIN calc.m.keys
         => calc.res.err

\* a string sealed under k1 by a manager that has only k1 is read by a manager
\* that holds k1 and k2 and seals with k2
C28_ReadAfterRotation ==
    /\ calc.op = "unmarshal" /\ calc.from = "marshal"
    /\ calc.by = [current |-> "k1", keys |-> [d \in {"k1"} |-> "m1"]]
    /\ calc.m = [current |-> "k2",
                 keys |-> [d \in KeyIds |-> IF d = "k1" THEN "m1" ELSE "m2"]]
    /\ calc.res = Done("sk-1")

\* C29 as claimed: re-encrypting the result of a manager's re-encryption with the
\* same manager gives the same string; a re-encrypted string carries the
\* manager's current key id and holds the plaintext of its source
C29_ReEncryptIdempotent ==
    /\ [][/\ calc.op = "reencrypt" /\ ~calc.res.err
          /\ calc'.op = "reencrypt" /\ ~calc'.res.err /\ calc'.m = calc.m
          => calc'.res = calc.res]_vars
    /\ [](calc.op = "reencrypt" /\ ~calc.res.err
            => /\ EnvelopeOf(calc.res.value).key_id = calc.m.current
               /\ Unmarshal(calc.m, calc.res.value) = Unmarshal(calc.m, calc.raw))

\* C29 amended: re-encrypting again with the same manager gives a string with
\* the same key id and the same plaintext, and the same string only if the RNG
\* gives the same nonce again; a re-encrypted string carries the manager's
\* current key id and holds the plaintext of its source; a source the manager
\* cannot read is an error
C29_ReEncryptUpToNonce ==
    /\ [][/\ calc.op = "reencrypt" /\ ~calc.res.err
          /\ calc'.op = "reencrypt" /\ ~calc'.res.err /\ calc'.m = calc.m
          => /\ EnvelopeOf(calc'.res.value).key_id = EnvelopeOf(calc.res.value).key_id
             /\ Unmarshal(calc.m, calc'.res.value) = Unmarshal(calc.m, calc.res.value)
             /\ calc'.res = calc.res
                   <=> EnvelopeOf(calc'.res.value).nonce
                         = EnvelopeOf(calc.res.value).nonce]_vars
    /\ [](calc.op = "reencrypt"
            => IF calc.res.err THEN Unmarshal(calc.m, calc.raw).err
                                      \/ calc.res = Failed("nonce")
               ELSE /\ EnvelopeOf(calc.res.value).key_id = calc.m.current
                    /\ ~Unmarshal(calc.m, calc.raw).err
                    /\ Unmarshal(calc.m, calc.res.value) = Unmarshal(calc.m, calc.raw))

\* a manager re-encrypted its own re-encryption and got another string; the
\* source of both was sealed under another key id
C29_SecondDiffers ==
    /\ calc.op = "reencrypt" /\ calc.from = "reencrypt" /\ ~calc.res.err
    /\ calc.by = calc.m /\ calc.res.value # calc.raw
    /\ Unmarshal(calc.m, calc.res.value) = Done("sk-1")

(* ======================= properties of the adapters ======================= *)

\* the last answer callOnce gave in the call
LastOut == call.outs[Len(call.outs)]
\* callOnce has just come back with an answer
CameBack == Running /\ Len(call'.outs) = Len(call.outs) + 1
\* the errors that are the context's cancellation, bare or wrapped
CancelErrors == {"context canceled", "request failed: context canceled"}

\* the loop of a Chat call: callOnce runs at most MaxRetries + 1 times and at most
\* that many requests are sent; another attempt follows only a 5xx, a 429 or an
\* error of Do; a 4xx other than 429 and a body that does not parse end the call
\* with that error, a success ends it with the text; once the context is
\* cancelled no request is sent and no attempt is added; every call ends
RetryRules ==
    /\ [](call.pc # "idle"
            => /\ call.attempt <= call.maxRetries
               /\ Len(call.outs) <= call.attempt + 1
               /\ call.sent <= Len(call.outs) + 1 /\ call.sent <= call.maxRetries + 1)
    /\ [][Running /\ call'.attempt # call.attempt
            => /\ call'.attempt = call.attempt + 1
               /\ Len(call.outs) = call'.attempt
               /\ \/ LastOut.fault = "transport"
                  \/ LastOut.fault \in {"none", "parse"} /\ LastOut.status >= 500
                  \/ LastOut.fault \in {"none", "parse"} /\ LastOut.status = 429]_vars
    /\ [][CameBack
            => LET a == call'.outs[Len(call'.outs)] IN
               /\ a.fault \in {"none", "parse"} /\ a.status >= 400 /\ a.status <= 499
                    /\ a.status # 429
                    => call'.pc = "done" /\ call'.result = "provider status"
               /\ a.fault = "parse" /\ a.status = 200
                    => call'.pc = "done" /\ call'.result = "parse"
               /\ a.fault = "none" /\ a.status = 200
                    => call'.pc = "done" /\ call'.result = "ok"]_vars
    /\ [][Running /\ call.cancelled
            => call'.sent = call.sent /\ call'.attempt = call.attempt]_vars
    /\ [](Running => <>(call.pc = "done"))

Processed(w) == pc[w] = "process" /\ pc'[w] = "exec"

\* the preset of entry i cannot be resolved: the named preset is absent, or the
\* name is empty and the chat has no row, no pointer, or a pointer to no preset
Unresolvable(i) ==
    LET chat == added[i].chat
        name == PresetOf(i)
    IN IF name # "" THEN PresetsNamed(chat, name) = {}
       ELSE \/ chat \notin chats
            \/ defaults[chat] = ""
            \/ PresetsNamed(chat, defaults[chat]) = {}

GuidanceReply(i) ==
    [job |-> added[i].job, chat |-> added[i].chat, text |-> GuidanceText, entry |-> i]

\* C31: when the preset of a job cannot be resolved and the store answered the
\* query, the worker sends the guidance reply (it reaches the chat unless the
\* platform call fails), makes no provider call, counts the job as processed,
\* goes on to ack the entry and never re-enqueues the job, whatever the attempts
\* of the entry.
C31_NotFoundIsTerminal ==
    /\ [][\A w \in Workers : (Processed(w) /\ Unresolvable(cur[w])) =>
            \/ outcome'[cur[w]] = "resolve" /\ faults' = faults + 1
            \/ /\ outcome'[cur[w]] = "not found"
               /\ calls'[w] = 0
               /\ todo'[w] = <<"xack", "xdel">>
               /\ processedJobs' = processedJobs + 1 /\ failedJobs' = failedJobs
               /\ added[cur[w]].job \in finished'
               /\ sent' \in {sent, sent \cup {GuidanceReply(cur[w])}}
               /\ faults' = faults => GuidanceReply(cur[w]) \in sent']_vars
    /\ [](\A i \in DOMAIN outcome : outcome[i] = "not found" => Children(i) = {})

\* C31 witness: a re-enqueued entry (attempts 1) whose preset is not found was
\* answered with the guidance text, acked and deleted
C31_GuidanceAfterRetry ==
    \E i \in DOMAIN outcome :
        /\ Unresolvable(i) /\ outcome[i] = "not found" /\ added[i].attempts = 1
        /\ GuidanceReply(i) \in sent
        /\ i \notin pel /\ i \notin stream
        /\ processedJobs = 1 /\ failedJobs = 1

\* the errors of processJob after the preset is resolved
LaterErrors ==
    {"decrypt api key", "decrypt headers", "parse headers json", "parse provider config",
     "build provider", "provider chat", "send telegram response"}

\* the provider row behind the preset entry i resolves to
RowOf(i) ==
    LET q == CHOOSE q \in resolvePreset(added[i].chat, PresetOf(i)) : TRUE
    IN CHOOSE pr \in providers : pr.id = q.pid

\* what is wrong with a provider row, by its columns
Defect(pr) ==
    IF pr.encAPIKey.set /\ pr.encAPIKey.key_id # currentKeyID THEN "decrypt api key"
    ELSE IF pr.encHeaders.set /\ pr.encHeaders.key_id # currentKeyID THEN "decrypt headers"
    ELSE IF pr.encHeaders.set /\ pr.encHeaders.ciphertext[2][4] = "custom"
           THEN "parse headers json"
    ELSE IF pr.config = BadConfig THEN "parse provider config"
    ELSE IF pr.kind = "anthropic" THEN "build provider"
    ELSE ""

\* C32: an error of processJob after the preset is resolved (a secret that does
\* not decrypt, headers or config that do not parse, an unknown kind, a failed
\* provider call, a reply that cannot be sent) is a job failure: it is counted as
\* failed, no reply is posted, and the entry is re-enqueued when its attempts are
\* below max_retries (the new entry carries attempts + 1) and terminally failed
\* otherwise; a row with a defect always fails that way, without a provider call;
\* and a job whose reply could not be sent calls the provider again when its new
\* entry is processed.
C32_LaterErrorsRetry ==
    [][\A w \in Workers : Processed(w) =>
         LET i == cur[w]
             why == outcome'[i]
         IN /\ why \in LaterErrors =>
                 /\ failedJobs' = failedJobs + 1 /\ processedJobs' = processedJobs
                 /\ sent' = sent
                 /\ todo'[w] = IF added[i].attempts < maxJobRetries
                                 THEN <<"enqueue", "xack", "xdel">>
                                 ELSE <<"senderror", "xack", "xdel">>
            /\ (why \notin {"resolve", "not found"} /\ Defect(RowOf(i)) # "") =>
                 why = Defect(RowOf(i)) /\ calls'[w] = 0
            /\ why \in {"provider chat", "send telegram response"} => calls'[w] >= 1
            /\ (added[i].parent # 0 /\ outcome[added[i].parent] = "send telegram response")
                 => /\ added[i].attempts = added[added[i].parent].attempts + 1
                    /\ why = "resolve" \/ calls'[w] >= 1]_vars

\* C32 witness: the reply of a job could not be sent after the provider had
\* answered; the job was re-enqueued, and the processing of the new entry called
\* the provider again and posted the answer
C32_CalledAgainAfterSendFailure ==
    \E w \in Workers :
        /\ pc[w] = "exec" /\ calls[w] >= 1
        /\ added[cur[w]].parent # 0
        /\ outcome[added[cur[w]].parent] = "send telegram response"
        /\ outcome[cur[w]] = ""
        /\ \E m \in sent : m.entry = cur[w] /\ m.text = AnswerText

(* ======================== properties of shutdown ======================== *)

\* C33: once the root context is cancelled and every consumer has exited, no
\* entry that was delivered is left unacknowledged: the job a consumer had in
\* hand at the cancellation was finished, and its entry acked (after the
\* re-enqueue, if the job is retried).
C33_DrainsOnShutdown ==
    (ctxDone /\ \A w \in Workers : pc[w] \in {"stopped", "exited"})
        => \A i \in Delivered : i \notin pel

(* ===================== properties of the endpoint URL ==================== *)

\* C34 as claimed: a base_url that ends in /chat/completions or /responses is the
\* request URL verbatim; any other base_url gives base_url without a trailing
\* slash, followed by /responses when config.endpoint is "responses" and by
\* /chat/completions otherwise.
C34_EndpointAppended ==
    calc.op = "endpoint" =>
        /\ ~calc.res.err
        /\ calc.res.value =
             IF HasSuffix(calc.base, "/chat/completions") \/ HasSuffix(calc.base, "/responses")
               THEN calc.base
               ELSE TrimSuffix(calc.base, "/")
                      \o <<IF calc.endpoint = "responses" THEN "/responses"
                           ELSE "/chat/completions">>

\* the pieces of a base URL that are path, and the rest before and after them
PathOf(s) == SelectSeq(s, InPath)
QueryOf(s) == SelectSeq(s, InQuery)

\* C34 amended: with base the base_url without the blanks around it, an empty
\* base and (when base has neither suffix) a base that does not parse give an
\* error; a base that ends in /chat/completions or /responses is the URL as it
\* is, whatever the endpoint; otherwise the URL is the parsed base written out
\* again (scheme in lower case) with its path, less one trailing slash, followed
\* by the suffix, and the query after the path; the suffix is /responses when the
\* endpoint is "responses" or "/v1/responses" in any case of letters, and
\* /chat/completions otherwise, an absent endpoint included.
C34_EndpointDerived ==
    calc.op = "endpoint" =>
        LET base == TrimSpace(calc.base)
            verbatim == HasSuffix(base, "/chat/completions") \/ HasSuffix(base, "/responses")
            suffix == IF calc.endpoint \in {"responses", "Responses", "/v1/responses"}
                        THEN "/responses" ELSE "/chat/completions"
        IN /\ calc.res.err <=>
                (base = <<>> \/ (~verbatim /\ \E k \in DOMAIN base : base[k] = "/%zz"))
           /\ (~calc.res.err /\ verbatim) => calc.res.value = base
           /\ (~calc.res.err /\ ~verbatim) =>
                /\ calc.res.value[1] = "https://h"
                /\ PathOf(calc.res.value) = TrimSuffix(PathOf(base), "/") \o <<suffix>>
                /\ QueryOf(calc.res.value) = QueryOf(base)
                /\ calc.res.value = <<"https://h">> \o PathOf(calc.res.value)
                                       \o QueryOf(calc.res.value)

\* C34 witness: a base URL with a query and the endpoint "/v1/responses": the
\* suffix /responses went between the path and the query
C34_SuffixBeforeQuery ==
    /\ calc.op = "endpoint" /\ calc.endpoint = "/v1/responses"
    /\ calc.base = <<"https://h", "/v1", "/", "?k=1">>
    /\ calc.res = Done(<<"https://h", "/v1", "/responses", "?k=1">>)

(* ========================== properties of the ack ======================= *)

\* consumer w makes the call at the head of its plan, and the call fails or not
Calls(w, call_) == pc[w] = "exec" /\ Head(todo[w]) = call_ /\ todo'[w] # todo[w]
                   /\ pc'[w] # "stopped"
FailsAt(w, call_) == Calls(w, call_) /\ faults' = faults + 1
MovesOn(w) == pc'[w] = "read" /\ todo'[w] = <<>> /\ cur'[w] = 0

\* C35: Ack is XACK then XDEL and ends without an error only when both
\* succeeded, the entry then being in neither the pending list nor the stream; a
\* failed XACK ends Ack before the XDEL, the entry staying in the stream and in
\* the pending list; a failed XDEL ends Ack with the entry acknowledged and still
\* in the stream. After a failed Ack the worker goes on to its next read, and
\* nothing acks or deletes an entry no consumer holds.
C35_AckBothOrError ==
    [][/\ \A w \in Workers :
            /\ FailsAt(w, "xack") =>
                 /\ MovesOn(w)
                 /\ pel' = pel /\ stream' = stream
                 /\ cur[w] \in pel /\ cur[w] \in stream
            /\ (Calls(w, "xack") /\ faults' = faults) =>
                 /\ todo'[w] = <<"xdel">> /\ cur'[w] = cur[w]
                 /\ pel' = pel \ {cur[w]} /\ stream' = stream
            /\ FailsAt(w, "xdel") =>
                 /\ MovesOn(w)
                 /\ pel' = pel /\ stream' = stream
                 /\ cur[w] \notin pel /\ cur[w] \in stream
            /\ (Calls(w, "xdel") /\ faults' = faults) =>
                 /\ MovesOn(w)
                 /\ cur[w] \notin pel' /\ cur[w] \notin stream'
       /\ \A i \in Delivered :
            ~Held(i) => /\ i \in pel <=> i \in pel'
                        /\ i \in stream <=> i \in stream']_vars

\* C35 witness: the XDEL of an Ack failed: the entry is acknowledged, still in
\* the stream, and its consumer is reading again
C35_AckedNotDeleted ==
    \E i \in Delivered :
        /\ i \in stream /\ i \notin pel /\ ~Held(i)
        /\ faults = 1
        /\ \A w \in Workers : pc[w] = "read"

\* the stores a private text can change
WizardData == <<sessions, providers, auditLog, lastId>>

\* what the session of u goes through in a step: a transition that advances it
\* rewrites it with the full TTL, nothing else moves its expiry, and it is there
\* until the tick it expires at and not after
C36_Lifetime(u) ==
    LET s == sessions[u]
        t == sessions'[u]
    IN /\ t # NoSession /\ t # s => t.exp = clock' + WizardTtlTicks
       /\ t # NoSession => t.exp > clock'
       /\ lastMsg'.op = "tick" =>
            IF s # NoSession /\ s.exp = clock' THEN t = NoSession ELSE t = s

\* after a /cancel that did not fail, and after the text that completed the
\* wizard, the user has no session
C36_Ended(u) ==
    /\ lastMsg'.op = "cancel" /\ lastMsg'.user = u /\ faults' = faults =>
         sessions'[u] = NoSession
    /\ lastMsg'.op = "text" /\ lastMsg'.user = u
         /\ lastMsg'.reply = "Provider saved. Use /llm_list in group." =>
         sessions'[u] = NoSession

\* a private text of a user without a session changes nothing
C36_NothingWithoutSession(u) ==
    lastMsg'.op = "text" /\ lastMsg'.user = u /\ sessions[u] = NoSession =>
        UNCHANGED WizardData

\* C36: every transition that advances the wizard rewrites the session with the
\* full TTL, so the session expires exactly TTL after its last successful
\* transition or its creation; after expiry, /cancel or completion the user has no
\* session, and further private texts of that user change nothing
C36_SessionLifetime ==
    [][\A u \in WizardUsers :
          C36_Lifetime(u) /\ C36_Ended(u) /\ C36_NothingWithoutSession(u)]_vars

\* the entries enqueued as the retry of entry i
Successors(i) == {k \in Ids : added[k].parent = i}

\* C37: when the re-enqueue of a failed job returns an error the worker neither
\* acks the old entry nor sends a reply and goes on to its next read; the old
\* entry stays in the stream and in the pending list, and an entry that is
\* pending and held by no consumer is never returned by a Read again.
C37_FailedReenqueue ==
    [][/\ \A w \in Workers :
            FailsAt(w, "enqueue") =>
                /\ MovesOn(w)
                /\ added' = added /\ sent' = sent
                /\ pel' = pel /\ stream' = stream
                /\ cur[w] \in pel /\ cur[w] \in stream
                /\ Successors(cur[w]) = {}
       /\ \A i \in pel :
            ~Held(i) =>
                /\ i \in pel' /\ i \in stream'
                /\ \A w \in Workers : cur'[w] # i
                /\ readLog' # Append(readLog, i)]_vars

\* C37 witness: of two jobs read one succeeded and is acked and deleted, the
\* other failed and its re-enqueue failed: it has no successor, no reply, no
\* consumer, and is still in the stream and pending while the consumers read on
C37_LeftPending ==
    \E i \in pel : \E k \in Delivered :
        /\ i \in stream /\ ~Held(i) /\ Successors(i) = {}
        /\ \A m \in sent : m.entry # i
        /\ k # i /\ k \notin stream /\ k \notin pel
        /\ failedJobs = 1 /\ processedJobs = 1 /\ faults = 1
        /\ \A n \in Ids : added[n].parent = 0
        /\ \A w \in Workers : pc[w] = "read"

\* the replies sent for entry i
Replies(i) == {m \in sent : m.entry = i}

\* C38: with several consumers reading from the group, an entry is returned by
\* at most one Read; no two consumers hold the same entry, every entry read is
\* processed once (each processing counted by one metric), and an entry has at
\* most one reply, none while it is being processed or before its terminal reply.
C38_OneConsumerPerEntry ==
    /\ \A k \in DOMAIN readLog, l \in DOMAIN readLog :
          readLog[k] = readLog[l] => k = l
    /\ \A w \in Workers :
          cur[w] # 0 =>
             /\ cur[w] \in Delivered
             /\ \A v \in Workers \ {w} : cur[v] # cur[w]
    /\ processedJobs + failedJobs + Cardinality({w \in Workers : pc[w] = "process"})
          = Len(readLog)
    /\ \A i \in Ids : Cardinality(Replies(i)) <= 1
    /\ \A w \in Workers :
          (pc[w] = "process" \/ (pc[w] = "exec" /\ "senderror" \in Range(todo[w])))
             => Replies(cur[w]) = {}

\* C38 witness: two consumers read at the same time and each got its own
\* entry; both entries are processed and each has its one reply
C38_TwoConsumersTwoEntries ==
    \E w \in Workers, v \in Workers :
        /\ w # v /\ pc[w] = "exec" /\ pc[v] = "exec"
        /\ cur[w] # cur[v]
        /\ Replies(cur[w]) # {} /\ Replies(cur[v]) # {}
        /\ Len(readLog) = 2 /\ processedJobs + failedJobs = 2

\* the text of user u at step api_key was answered with the failure reply
PersistFailed(u) ==
    /\ lastMsg'.op = "text" /\ lastMsg'.user = u
    /\ sessions[u].step = "api_key"
    /\ lastMsg'.reply = "Failed to save provider. Try again with /llm_add."

\* C39: when persisting the provider fails at step api_key, no provider row and
\* no audit entry are written, the session stays as it was (step api_key, the
\* collected fields unchanged) and the user gets the failure reply; a text clears
\* the session only after a successful persist.
C39_FailedPersistWritesNothing ==
    [][\A u \in WizardUsers :
          /\ PersistFailed(u) =>
                /\ providers' = providers
                /\ auditLog' = auditLog
                /\ sessions'[u] = sessions[u]
          /\ (lastMsg'.op = "text" /\ lastMsg'.user = u
                /\ sessions[u] # NoSession /\ sessions'[u] = NoSession) =>
                /\ sessions[u].step = "api_key"
                /\ lastMsg'.reply = "Provider saved. Use /llm_list in group."
                /\ \E p \in providers' :
                      p.chat = sessions[u].target /\ p.name = sessions[u].name]_vars

\* consumer w ends the processJob of the entry it holds
Processes(w) == pc[w] = "process" /\ pc'[w] = "exec"

\* C40: the processing of a delivered entry increments exactly one of
\* queue_processed_total and queue_failed_total, before any ack, and nothing else
\* moves them; a job answered with the preset-not-found guidance counts as
\* processed; queue_enqueued_total moves by one with every entry ingress adds and
\* never with a worker's re-enqueue; and with no entry in processJob,
\* processed + failed is the number of entries delivered.
C40_MetricsAccounting ==
    [][/\ \A w \in Workers :
            Processes(w) =>
                /\ \/ processedJobs' = processedJobs + 1 /\ failedJobs' = failedJobs
                   \/ processedJobs' = processedJobs /\ failedJobs' = failedJobs + 1
                /\ cur[w] \in pel' /\ cur[w] \in stream'
                /\ pel' = pel /\ stream' = stream
                /\ (\E m \in sent' \ sent : m.entry = cur[w] /\ m.text = GuidanceText)
                      => processedJobs' = processedJobs + 1
       /\ (\A w \in Workers : ~Processes(w)) =>
             processedJobs' = processedJobs /\ failedJobs' = failedJobs
       /\ IF Len(added') > Len(added) /\ added'[Len(added')].parent = 0
            THEN enqueuedJobs' = enqueuedJobs + 1
            ELSE enqueuedJobs' = enqueuedJobs
       /\ (\A w \in Workers : pc'[w] # "process") =>
             processedJobs' + failedJobs' = Len(readLog')]_vars

\* C40 witness: one job of ingress failed once and was re-enqueued by the
\* worker, and its retry was answered with the not-found guidance: one enqueued,
\* one failed, one processed, two entries delivered, every consumer idle
C40_RetryThenGuidance ==
    /\ enqueuedJobs = 1 /\ failedJobs = 1 /\ processedJobs = 1
    /\ Len(readLog) = 2 /\ Len(added) = 2
    /\ added[2].parent = 1
    /\ \E m \in sent : m.entry = 2 /\ m.text = GuidanceText
    /\ pel = {} /\ stream = {}
    /\ \A w \in Workers : cur[w] = 0

====
